---- MODULE Spec2Model ----
(***************************************************************************)
(* PRISM round-based simulation engine: the statechart engine, the         *)
(* per-agent executor pipeline, the round controller, the checkpointer,    *)
(* the reasoner and the embedding function.                                *)
(*                                                                         *)
(* Six specifications are defined over one set of variables:               *)
(*   SpecChart         the statechart engine as a library: a chart is      *)
(*                     built from bounded inputs and fire / valid_targets  *)
(*                     are called on it;                                   *)
(*   Spec              a simulation run: RoundController driving the       *)
(*                     AgentRoundExecutor pipeline over the agents;        *)
(*   SpecCheckpointer  the checkpointer as a library: save, step by step   *)
(*                     and with failures, load and latest_checkpoint;      *)
(*   SpecAgent         the agent as a library: tick, transition_to,        *)
(*                     is_timed_out, determine_trigger, should_engage and  *)
(*                     a checkpoint round trip;                            *)
(*   SpecReasoner      the reasoner as a library: decide on a candidate    *)
(*                     list, for every kind of LLM outcome;                *)
(*   SpecEmbedding     the embedding function as a library: __call__ with  *)
(*                     the retried _embed_single.                          *)
(***************************************************************************)
EXTENDS Integers, Sequences, FiniteSets, TLC

\* ------------------------------------------------------------------------
\* Bounds
\* ------------------------------------------------------------------------
MaxTransitions == 2
NumAgents == 2
MaxRounds == 3
MaxFrequency == 2
MaxStartRound == 2
FeedSize == 2
MaxHistoryDepth == 2
MaxThreshold == 2
MaxCalls == 4
MaxOptions == 2
MaxDocs == 2

\* SocialAgent.__init__ default
DefaultTimeoutThreshold == 5

\* width of the zero-padded round number in a checkpoint file name
PadWidth == 4

\* stop_after_attempt(3) on _embed_single
MaxAttempts == 3

\* SocialAgent.__init__ default; engagement_threshold and relevance are
\* counted in tenths: 5 is 0.5
DefaultEngagementThreshold == 5

\* ------------------------------------------------------------------------
\* Values
\* ------------------------------------------------------------------------
None == "none"

AgentState ==
    {"idle", "scrolling", "evaluating", "composing",
     "engaging_like", "engaging_reply", "engaging_reshare", "resting"}

\* A Transition; guard is what the guard callable does when it is called
\* ("none": no guard), action is "callable" when the transition carries one.
Transition(trigger, source, target, guard, action) ==
    [trigger |-> trigger, source |-> source, target |-> target,
     guard |-> guard, action |-> action]

Unguarded(trigger, source, target) ==
    Transition(trigger, source, target, "none", "none")

GuardKinds == {"none", "true", "false", "raise"}
ActionKinds == {"none", "callable"}

VARIABLES
    states,         \* Statechart.states
    transitions,    \* Statechart.transitions (declaration order)
    initial,        \* Statechart.initial
    constructed,    \* Statechart.__init__ returned without ValueError
    call,           \* the last engine call and what it produced
    config,         \* SimulationConfig
    wiring,         \* what the caller passed in: entry point, executors,
                    \* reasoner, agent_factory, log file
    agents,         \* SimulationState.agents
    posts,          \* SimulationState.posts
    round_number,   \* SimulationState.round_number
    metrics,        \* SimulationState.metrics
    index,          \* ids held by the FeedRetriever's collection
    ctl,            \* RoundController: position in run_simulation /
                    \* resume_from_checkpoint / run_round
    turn,           \* per agent: position and locals of its turn in the
                    \* current round (AgentRoundExecutor.execute)
    decisions,      \* run_round's decisions list
    rounds,         \* the rounds list of the run
    disk,           \* checkpoint directory: round number -> content of
                    \* checkpoint_round_NNNN.json
    tmpfiles,       \* checkpoint directory: round number -> content of
                    \* checkpoint_round_NNNN.tmp
    log,            \* decision log entries written so far
    file_handle,    \* LoggingExecutor._file_handle: "none", "open" or
                    \* "closed"
    outcome         \* how the entry point ended

chartVars == <<states, transitions, initial, constructed, call>>
simVars == <<config, wiring, agents, posts, round_number, metrics, index,
             ctl, turn, decisions, rounds, disk, tmpfiles, log, file_handle,
             outcome>>
vars == <<states, transitions, initial, constructed, call, config, wiring,
          agents, posts, round_number, metrics, index, ctl, turn, decisions,
          rounds, disk, tmpfiles, log, file_handle, outcome>>

\* ------------------------------------------------------------------------
\* Statechart engine
\* ------------------------------------------------------------------------
StatechartInit(sts, trs, init) ==
    /\ init \in sts
    /\ \A i \in 1..Len(trs) : trs[i].source \in sts /\ trs[i].target \in sts

\* The try/except around one guard call: what the scan does next.
GuardStep_propagates(guard) ==
    CASE guard = "true" -> "fire"
      [] guard = "false" -> "continue"
      [] guard = "raise" -> "raise"

GuardStep(guard) ==
    CASE guard = "true" -> "fire"
      [] guard = "false" -> "continue"
      [] guard = "raise" -> "continue"

FireResult(result, selected, guards, actions, raised) ==
    [result |-> result, selected |-> selected, guards |-> guards,
     actions |-> actions, raised |-> raised]

RECURSIVE FireScan(_, _, _, _, _)
FireScan(trs, trigger, current_state, i, guards) ==
    IF i > Len(trs)
    THEN FireResult(None, 0, guards, <<>>, FALSE)
    ELSE IF trs[i].trigger # trigger
    THEN FireScan(trs, trigger, current_state, i + 1, guards)
    ELSE IF trs[i].source # current_state
    THEN FireScan(trs, trigger, current_state, i + 1, guards)
    ELSE IF trs[i].guard # "none"
    THEN LET step == GuardStep(trs[i].guard)
             seen == Append(guards, i)
         IN  CASE step = "continue" ->
                    FireScan(trs, trigger, current_state, i + 1, seen)
               [] step = "raise" ->
                    FireResult(None, 0, seen, <<>>, TRUE)
               [] step = "fire" ->
                    FireResult(trs[i].target, i, seen, <<>>, FALSE)
    ELSE FireResult(trs[i].target, i, guards, <<>>, FALSE)

Fire_lastWins(trs, trigger, current_state) ==
    LET Q == {i \in 1..Len(trs) :
                /\ trs[i].trigger = trigger
                /\ trs[i].source = current_state
                /\ trs[i].guard \in {"none", "true"}}
        last == CHOOSE i \in Q : \A j \in Q : j <= i
    IN  IF Q = {}
        THEN FireResult(None, 0, <<>>, <<>>, FALSE)
        ELSE FireResult(trs[last].target, last, <<>>, <<>>, FALSE)

\* fire reporting no transition when several unguarded ones match
Fire_ambiguousIsNone(trs, trigger, current_state) ==
    LET Q == {i \in 1..Len(trs) :
                /\ trs[i].trigger = trigger
                /\ trs[i].source = current_state}
    IN  IF Cardinality(Q) > 1
        THEN FireResult(None, 0, <<>>, <<>>, FALSE)
        ELSE FireScan(trs, trigger, current_state, 1, <<>>)

Fire(trs, trigger, current_state) ==
    FireScan(trs, trigger, current_state, 1, <<>>)

RECURSIVE ValidTargetsScan(_, _, _, _, _)
ValidTargetsScan(trs, state, trigger, i, targets) ==
    IF i > Len(trs)
    THEN targets
    ELSE IF trs[i].source = state /\ trs[i].trigger = trigger
    THEN ValidTargetsScan(trs, state, trigger, i + 1,
                          Append(targets, trs[i].target))
    ELSE ValidTargetsScan(trs, state, trigger, i + 1, targets)

ValidTargets_guardsApplied(trs, state, trigger) ==
    LET keep == SelectSeq(trs, LAMBDA t : /\ t.source = state
                                          /\ t.trigger = trigger
                                          /\ t.guard \in {"none", "true"})
    IN  [k \in 1..Len(keep) |-> keep[k].target]

ValidTargets(trs, state, trigger) ==
    ValidTargetsScan(trs, state, trigger, 1, <<>>)

\* ------------------------------------------------------------------------
\* The standard social-media chart
\* ------------------------------------------------------------------------
create_social_media_statechart ==
    << Unguarded("start_browsing", "idle", "scrolling"),
       Unguarded("sees_post", "scrolling", "evaluating"),
       Unguarded("feed_empty", "scrolling", "resting"),
       Unguarded("decides", "evaluating", "composing"),
       Unguarded("decides", "evaluating", "engaging_like"),
       Unguarded("decides", "evaluating", "engaging_reply"),
       Unguarded("decides", "evaluating", "engaging_reshare"),
       Unguarded("decides", "evaluating", "scrolling"),
       Unguarded("finishes_composing", "composing", "scrolling"),
       Unguarded("finishes_engaging", "engaging_like", "scrolling"),
       Unguarded("finishes_engaging", "engaging_reply", "scrolling"),
       Unguarded("finishes_engaging", "engaging_reshare", "scrolling"),
       Unguarded("rested", "resting", "idle"),
       Unguarded("timeout", "scrolling", "idle"),
       Unguarded("timeout", "evaluating", "idle"),
       Unguarded("timeout", "composing", "idle"),
       Unguarded("timeout", "engaging_like", "idle"),
       Unguarded("timeout", "engaging_reply", "idle"),
       Unguarded("timeout", "engaging_reshare", "idle"),
       Unguarded("timeout", "resting", "idle") >>

\* The chart of test_execute_calls_reasoner_when_ambiguous: every `decides`
\* transition is guarded and every guard returns False.
GuardedDecidesChart ==
    << Transition("decides", "evaluating", "composing", "false", "none"),
       Transition("decides", "evaluating", "engaging_like", "false", "none"),
       Transition("decides", "evaluating", "scrolling", "false", "none") >>

\* A chart whose first `decides` transition is an unguarded self-loop of
\* evaluating, followed by one to composing: fire returns the current
\* state.
SelfLoopChart ==
    << Unguarded("decides", "evaluating", "evaluating"),
       Unguarded("decides", "evaluating", "composing") >>

\* A chart with a single `decides` transition whose guard returns False:
\* fire returns None and valid_targets has one element.
SingleGuardedChart ==
    << Transition("decides", "evaluating", "engaging_like", "false",
                  "none") >>

\* ------------------------------------------------------------------------
\* Agent
\* ------------------------------------------------------------------------
SocialAgent(agent_id, state, ticks) ==
    [agent_id |-> agent_id, state |-> state, ticks_in_state |-> ticks,
     timeout_threshold |-> DefaultTimeoutThreshold,
     state_history |-> <<>>, max_history_depth |-> MaxHistoryDepth,
     engagement_threshold |-> DefaultEngagementThreshold,
     is_dict |-> FALSE]

tick(agent) == [agent EXCEPT !.ticks_in_state = @ + 1]

is_timed_out_atThreshold(agent) ==
    agent.ticks_in_state >= agent.timeout_threshold

\* is_timed_out allowing one tick more
is_timed_out_lenient(agent) ==
    agent.ticks_in_state > agent.timeout_threshold + 1

is_timed_out(agent) == agent.ticks_in_state > agent.timeout_threshold

should_engage(agent, relevance) == relevance >= agent.engagement_threshold

\* list[-depth:] -- the whole list when depth is 0, list[k:] when depth
\* is -k
SliceLast(list, depth) ==
    IF depth = 0 \/ depth >= Len(list)
    THEN list
    ELSE IF depth > 0
    THEN SubSeq(list, Len(list) - depth + 1, Len(list))
    ELSE SubSeq(list, 1 - depth, Len(list))

transition_to_keepsTicks(agent, new_state, trigger, context) ==
    IF new_state = agent.state
    THEN agent
    ELSE [agent EXCEPT !.state = new_state]

transition_to_recordsSelf(agent, new_state, trigger, context) ==
    [agent EXCEPT
        !.state_history =
            Append(@, [from_state |-> agent.state, to_state |-> new_state,
                       trigger |-> trigger, context |-> context]),
        !.state = new_state,
        !.ticks_in_state = 0]

\* transition_to recording the transition without resetting the ticks
transition_to_noReset(agent, new_state, trigger, context) ==
    IF new_state = agent.state
    THEN agent
    ELSE LET entry == [from_state |-> agent.state, to_state |-> new_state,
                       trigger |-> trigger, context |-> context]
             appended == Append(agent.state_history, entry)
             pruned == IF Len(appended) > agent.max_history_depth
                       THEN SliceLast(appended, agent.max_history_depth)
                       ELSE appended
         IN  [agent EXCEPT !.state_history = pruned,
                           !.state = new_state]

transition_to(agent, new_state, trigger, context) ==
    IF new_state = agent.state
    THEN agent
    ELSE LET entry == [from_state |-> agent.state, to_state |-> new_state,
                       trigger |-> trigger, context |-> context]
             appended == Append(agent.state_history, entry)
             pruned == IF Len(appended) > agent.max_history_depth
                       THEN SliceLast(appended, agent.max_history_depth)
                       ELSE appended
         IN  [agent EXCEPT !.state_history = pruned,
                           !.state = new_state,
                           !.ticks_in_state = 0]

determine_trigger_timeoutFirst(agent, feed) ==
    IF agent.ticks_in_state > agent.timeout_threshold THEN "timeout"
    ELSE IF agent.state = "scrolling" /\ feed # <<>> THEN "sees_post"
    ELSE IF agent.state = "scrolling" THEN "feed_empty"
    ELSE IF agent.state = "evaluating" THEN "decides"
    ELSE IF agent.state = "composing" THEN "finishes_composing"
    ELSE IF agent.state = "resting" THEN "rested"
    ELSE IF agent.state = "idle" THEN "start_browsing"
    ELSE "finishes_engaging"

determine_trigger(agent, feed) ==
    CASE agent.state = "idle" -> "start_browsing"
      [] agent.state = "scrolling" ->
            IF feed # <<>> THEN "sees_post" ELSE "feed_empty"
      [] agent.state = "evaluating" -> "decides"
      [] agent.state = "composing" -> "finishes_composing"
      [] agent.state \in {"engaging_like", "engaging_reply",
                          "engaging_reshare"} -> "finishes_engaging"
      [] agent.state = "resting" -> "rested"
      [] OTHER -> "start_browsing"

\* ------------------------------------------------------------------------
\* Results
\* ------------------------------------------------------------------------
NoAction == [action |-> None, target_post_id |-> None, content |-> None]

ActionResult(action, target_post_id) ==
    [action |-> action, target_post_id |-> target_post_id, content |-> None]

\* The dataclass fields of DecisionResult: a keyword outside them makes the
\* generated __init__ raise TypeError.
DecisionResultFields ==
    {"agent_id", "trigger", "from_state", "to_state", "action"}

NoDecision ==
    [agent_id |-> 0, trigger |-> None, from_state |-> None,
     to_state |-> None, action |-> NoAction, reasoner_used |-> None,
     stand_in |-> FALSE]

\* DecisionResult(**kwargs): the object built, or the TypeError raised.
\* reasoner_used is an attribute of the object only if it is a field.
DecisionResultInit(kwargs) ==
    IF DOMAIN kwargs \subseteq DecisionResultFields
    THEN [error |-> None,
          value |-> [NoDecision EXCEPT
                        !.agent_id = kwargs.agent_id,
                        !.trigger = kwargs.trigger,
                        !.from_state = kwargs.from_state,
                        !.to_state = kwargs.to_state,
                        !.action = kwargs.action,
                        !.reasoner_used =
                            IF "reasoner_used" \in DOMAIN kwargs
                            THEN kwargs.reasoner_used ELSE None]]
    ELSE [error |-> "TypeError", value |-> NoDecision]

\* a DecisionResult has the attribute only if it is a field; a stand-in
\* object (a mock) has whatever its maker gave it
HasReasonerUsed(decision) ==
    "reasoner_used" \in DecisionResultFields \/ decision.stand_in

\* ------------------------------------------------------------------------
\* Decision executor
\* ------------------------------------------------------------------------
\* AgentDecisionExecutor._execute_action
_execute_action(from_state, feed) ==
    LET target_post_id == IF feed # <<>> THEN feed[1] ELSE None
    IN  CASE from_state = "composing" -> ActionResult("compose", None)
          [] from_state = "engaging_like" ->
                ActionResult("like", target_post_id)
          [] from_state = "engaging_reply" ->
                ActionResult("reply", target_post_id)
          [] from_state = "engaging_reshare" ->
                ActionResult("reshare", target_post_id)
          [] OTHER -> ActionResult("scroll", None)

\* Steps 1-4 of AgentDecisionExecutor.execute, up to the point where the
\* reasoner is awaited or the new state is known.
DecisionBegin(agent0, trs, feed, has_reasoner) ==
    LET agent == tick(agent0)
        from_state == agent.state
        trigger == IF is_timed_out(agent)
                   THEN "timeout"
                   ELSE determine_trigger(agent, feed)
        fired == Fire(trs, trigger, agent.state)
        targets == IF fired.result = None
                   THEN ValidTargets(trs, agent.state, trigger)
                   ELSE <<>>
        awaits == fired.result = None /\ Len(targets) > 1 /\ has_reasoner
        new_state == IF fired.result # None THEN fired.result
                     ELSE IF awaits THEN None
                     ELSE IF Len(targets) = 1 THEN targets[1]
                     ELSE IF Len(targets) > 1 THEN targets[1]
                     ELSE None
    IN  [agent |-> agent, from_state |-> from_state, trigger |-> trigger,
         fired |-> fired.result, targets |-> targets, awaits |-> awaits,
         new_state |-> new_state]

\* Steps 5-6 and the return statement.
DecisionEnd(agent, from_state, trigger, new_state, reasoner_used, feed, round) ==
    LET applied == new_state # None /\ new_state # agent.state
        agent1 == IF applied
                  THEN transition_to(agent, new_state, trigger,
                                     [round |-> round])
                  ELSE agent
        to_state == IF applied THEN new_state ELSE agent.state
        action == _execute_action(from_state, feed)
        built == DecisionResultInit(
                    [agent_id |-> agent.agent_id, trigger |-> trigger,
                     from_state |-> from_state, to_state |-> to_state,
                     action |-> action, reasoner_used |-> reasoner_used])
    IN  [agent |-> agent1, to_state |-> to_state, action |-> action,
         error |-> built.error, decision |-> built.value]

\* ------------------------------------------------------------------------
\* State update executor
\* ------------------------------------------------------------------------
EngagementMetrics(likes, reshares, replies, created) ==
    [total_likes |-> likes, total_reshares |-> reshares,
     total_replies |-> replies, posts_created |-> created]

Post(id) == [id |-> id, likes |-> 0, reshares |-> 0, replies |-> 0]

\* SimulationState.get_post_by_id: position of the first post with this id,
\* 0 when there is none
get_post_by_id(ps, post_id) ==
    IF \E k \in 1..Len(ps) : ps[k].id = post_id
    THEN CHOOSE k \in 1..Len(ps) :
            /\ ps[k].id = post_id
            /\ \A j \in 1..(k - 1) : ps[j].id # post_id
    ELSE 0

\* the three handlers; new_post is never supplied by the round executor
_handle_like_postOnly(ps, ms, idx, target_post_id) ==
    LET k == IF target_post_id = None THEN 0
             ELSE get_post_by_id(ps, target_post_id)
    IN  IF k = 0
        THEN [posts |-> ps, metrics |-> ms, index |-> idx]
        ELSE [posts |-> [ps EXCEPT ![k].likes = @ + 1],
              metrics |-> ms, index |-> idx]

_handle_like(ps, ms, idx, target_post_id) ==
    LET k == IF target_post_id = None THEN 0
             ELSE get_post_by_id(ps, target_post_id)
    IN  IF k = 0
        THEN [posts |-> ps, metrics |-> ms, index |-> idx]
        ELSE [posts |-> [ps EXCEPT ![k].likes = @ + 1],
              metrics |-> [ms EXCEPT !.total_likes = @ + 1],
              index |-> idx]

add_post(st, new_post) ==
    IF new_post = None
    THEN st
    ELSE [posts |-> Append(st.posts, Post(new_post)),
          metrics |-> [st.metrics EXCEPT !.posts_created = @ + 1],
          index |-> st.index \cup {new_post}]

\* _handle_reply counting the reply without touching the post
_handle_reply_metricOnly(ps, ms, idx, target_post_id, new_post) ==
    LET k == IF target_post_id = None THEN 0
             ELSE get_post_by_id(ps, target_post_id)
        st == IF k = 0
              THEN [posts |-> ps, metrics |-> ms, index |-> idx]
              ELSE [posts |-> ps,
                    metrics |-> [ms EXCEPT !.total_replies = @ + 1],
                    index |-> idx]
    IN  add_post(st, new_post)

_handle_reply(ps, ms, idx, target_post_id, new_post) ==
    LET k == IF target_post_id = None THEN 0
             ELSE get_post_by_id(ps, target_post_id)
        st == IF k = 0
              THEN [posts |-> ps, metrics |-> ms, index |-> idx]
              ELSE [posts |-> [ps EXCEPT ![k].replies = @ + 1],
                    metrics |-> [ms EXCEPT !.total_replies = @ + 1],
                    index |-> idx]
    IN  add_post(st, new_post)

_handle_reshare(ps, ms, idx, target_post_id, new_post) ==
    LET k == IF target_post_id = None THEN 0
             ELSE get_post_by_id(ps, target_post_id)
        st == IF k = 0
              THEN [posts |-> ps, metrics |-> ms, index |-> idx]
              ELSE [posts |-> [ps EXCEPT ![k].reshares = @ + 1],
                    metrics |-> [ms EXCEPT !.total_reshares = @ + 1],
                    index |-> idx]
    IN  add_post(st, new_post)

_handle_compose(ps, ms, idx, new_post) ==
    add_post([posts |-> ps, metrics |-> ms, index |-> idx], new_post)

StateUpdateExecute(ps, ms, idx, decision, new_post) ==
    LET a == decision.action
    IN  CASE a.action = "like" ->
                _handle_like(ps, ms, idx, a.target_post_id)
          [] a.action = "reply" ->
                _handle_reply(ps, ms, idx, a.target_post_id, new_post)
          [] a.action = "reshare" ->
                _handle_reshare(ps, ms, idx, a.target_post_id, new_post)
          [] a.action = "compose" ->
                _handle_compose(ps, ms, idx, new_post)
          [] OTHER -> [posts |-> ps, metrics |-> ms, index |-> idx]

\* ------------------------------------------------------------------------
\* Logging executor
\* ------------------------------------------------------------------------
\* LoggingExecutor.execute: the entry written, or the AttributeError raised
\* by reading decision.reasoner_used.
LoggingExecute(decision, round) ==
    IF HasReasonerUsed(decision)
    THEN [error |-> None,
          entry |-> [round |-> round, agent_id |-> decision.agent_id,
                     trigger |-> decision.trigger,
                     from_state |-> decision.from_state,
                     to_state |-> decision.to_state,
                     action_type |-> decision.action.action,
                     reasoner_used |-> decision.reasoner_used]]
    ELSE [error |-> "AttributeError",
          entry |-> [round |-> round, agent_id |-> decision.agent_id,
                     trigger |-> None, from_state |-> None,
                     to_state |-> None, action_type |-> None,
                     reasoner_used |-> None]]

\* ------------------------------------------------------------------------
\* Checkpointer
\* ------------------------------------------------------------------------
SUPPORTED_VERSIONS == {"1.0"}

state_distribution_presence(ags) ==
    [s \in AgentState |->
        IF \E i \in 1..Len(ags) : ags[i].state = s THEN 1 ELSE 0]

state_distribution(ags) ==
    [s \in AgentState |->
        Cardinality({i \in 1..Len(ags) : ags[i].state = s})]

_serialize_agent_noTicks(agent) ==
    [agent_id |-> agent.agent_id, state |-> agent.state,
     ticks_in_state |-> 0,
     engagement_threshold |-> agent.engagement_threshold]

\* name, interests and personality are written too; nothing modelled here
\* depends on them
_serialize_agent(agent) ==
    [agent_id |-> agent.agent_id, state |-> agent.state,
     ticks_in_state |-> agent.ticks_in_state,
     engagement_threshold |-> agent.engagement_threshold]

\* The CheckpointData that save writes (timestamp left out).
CheckpointData(round, ps, ags, ms) ==
    [version |-> "1.0",
     round_number |-> round,
     posts |-> ps,
     agents |-> [i \in 1..Len(ags) |-> _serialize_agent(ags[i])],
     metrics |-> ms,
     state_distribution |-> state_distribution(ags)]

\* Checkpointer.save: the file checkpoint_round_NNNN.json is (re)written.
Save(files, round, ps, ags, ms) ==
    [r \in (DOMAIN files) \cup {round} |->
        IF r = round THEN CheckpointData(round, ps, ags, ms) ELSE files[r]]

\* What agent_factory(dict) builds; without a factory the dicts are kept.
ReconstructAgent(d, has_factory) ==
    IF has_factory
    THEN [SocialAgent(d.agent_id, d.state, d.ticks_in_state)
            EXCEPT !.engagement_threshold = d.engagement_threshold]
    ELSE [SocialAgent(d.agent_id, d.state, d.ticks_in_state)
            EXCEPT !.engagement_threshold = d.engagement_threshold,
                   !.is_dict = TRUE]

\* data.get("version", "unknown")
Version(data) == IF data.version = None THEN "unknown" ELSE data.version

\* Checkpointer.load
Load_anyVersion(data, has_factory) ==
    [error |-> None,
     round_number |-> data.round_number,
     posts |-> data.posts,
     agents |-> [i \in 1..Len(data.agents) |->
                    ReconstructAgent(data.agents[i], has_factory)],
     metrics |-> data.metrics]

Load_freshMetrics(data, has_factory) ==
    IF Version(data) \notin SUPPORTED_VERSIONS
    THEN [error |-> "ValueError", round_number |-> 0, posts |-> <<>>,
          agents |-> <<>>, metrics |-> EngagementMetrics(0, 0, 0, 0)]
    ELSE [error |-> None,
          round_number |-> data.round_number,
          posts |-> data.posts,
          agents |-> [i \in 1..Len(data.agents) |->
                        ReconstructAgent(data.agents[i], has_factory)],
          metrics |-> EngagementMetrics(0, 0, 0, 0)]

Load(data, has_factory) ==
    IF Version(data) \notin SUPPORTED_VERSIONS
    THEN [error |-> "ValueError", round_number |-> 0, posts |-> <<>>,
          agents |-> <<>>, metrics |-> EngagementMetrics(0, 0, 0, 0)]
    ELSE [error |-> None,
          round_number |-> data.round_number,
          posts |-> data.posts,
          agents |-> [i \in 1..Len(data.agents) |->
                        ReconstructAgent(data.agents[i], has_factory)],
          metrics |-> data.metrics]

\* a file whose JSON text is cut short (json.load raises on it)
Truncated == [truncated |-> TRUE]

IsComplete(file) == "version" \in DOMAIN file

\* where save writes the JSON text: temp_path = path.with_suffix(".tmp")
SaveTarget_inPlace == "final"

SaveTarget == "tmp"

\* the decimal digits of n, most significant first
RECURSIVE Digits(_)
Digits(n) == IF n < 10 THEN <<n>> ELSE Append(Digits(n \div 10), n % 10)

\* f"{round_number:04d}" and the "." of ".json", as character codes; the
\* prefix "checkpoint_round_" and the suffix "json" are common to all names
FileName(round) ==
    LET d == Digits(round)
        padded == IF Len(d) >= PadWidth THEN d
                  ELSE [k \in 1..PadWidth |->
                          IF k <= PadWidth - Len(d) THEN 0
                          ELSE d[k - (PadWidth - Len(d))]]
    IN  Append([k \in 1..Len(padded) |-> 48 + padded[k]], 46)

\* str < str
RECURSIVE LexLess(_, _)
LexLess(a, b) ==
    IF a = <<>> THEN b # <<>>
    ELSE IF b = <<>> THEN FALSE
    ELSE IF Head(a) # Head(b) THEN Head(a) < Head(b)
    ELSE LexLess(Tail(a), Tail(b))

\* Checkpointer.latest_checkpoint: sorted(glob(...))[-1], as the round
\* of the file found; files is the set of rounds with a .json file
latest_checkpoint(files) ==
    IF files = {} THEN None
    ELSE CHOOSE r \in files :
            \A q \in files : q = r \/ LexLess(FileName(q), FileName(r))

\* ------------------------------------------------------------------------
\* Round controller
\* ------------------------------------------------------------------------
_should_checkpoint(round, cfg) ==
    IF ~cfg.checkpoint_dir
    THEN FALSE
    ELSE round % cfg.checkpoint_frequency = 0

advance_round(round) == round + 1

\* range(n): the number of iterations of `for _ in range(n)`
RangeLen(n) == IF n > 0 THEN n ELSE 0

\* ------------------------------------------------------------------------
\* Feed retrieval
\* ------------------------------------------------------------------------
\* FeedRetriever.get_feed on a non-empty collection: min(feed_size, count)
\* distinct posts, in an order the vector store or the sampling decides.
RECURSIVE Arrangements(_, _)
Arrangements(S, n) ==
    IF n = 0 \/ S = {}
    THEN {<<>>}
    ELSE UNION {{<<x>> \o rest : rest \in Arrangements(S \ {x}, n - 1)} :
                x \in S}

get_feed(idx) == Arrangements(idx, FeedSize)

\* ------------------------------------------------------------------------
\* The run: initial states
\* ------------------------------------------------------------------------
NoCall ==
    [op |-> None, trigger |-> None, state |-> None, result |-> None,
     selected |-> 0, guards |-> <<>>, actions |-> <<>>, raised |-> FALSE,
     targets |-> <<>>]

NoTurn ==
    [phase |-> "waiting", feed |-> <<>>, trigger |-> None,
     from_state |-> None, targets |-> <<>>, answer |-> None,
     reasoner_used |-> FALSE, decision |-> NoDecision, error |-> None]

Pending == [status |-> "pending", error |-> None, total_rounds |-> 0]

\* what an injected decision executor double returns as the action
DoubleActions ==
    {NoAction, ActionResult("scroll", None), ActionResult("like", "p1"),
     ActionResult("like", "p2"), ActionResult("like", None),
     ActionResult("reply", "p1"),
     ActionResult("reshare", None), ActionResult("compose", None)}

Wirings ==
    {w \in [entry : {"run_simulation", "resume_from_checkpoint"},
            agent_factory : BOOLEAN,
            decision_executor : {"AgentDecisionExecutor", "double"},
            logging : BOOLEAN,
            reasoner : BOOLEAN,
            double_action : DoubleActions,
            log_file : BOOLEAN,
            double_result : {"DecisionResult", "stand_in"}] :
        /\ w.entry = "run_simulation" => ~w.agent_factory
        /\ w.log_file => w.logging /\ w.entry = "run_simulation"
        /\ w.double_result = "stand_in" =>
                w.decision_executor = "double" /\ w.logging
        /\ w.decision_executor = "double" => ~w.reasoner
        /\ w.decision_executor = "AgentDecisionExecutor" =>
                w.double_action = NoAction}

InitTicks == {0, DefaultTimeoutThreshold}

\* the version field of a checkpoint file that is on disk before the run:
\* written by save, written by some other version, or without the field
FileVersions == {"1.0", "99.0", None}

\* A run_simulation run starts from a SimulationState built by the caller.
\* A resume_from_checkpoint run starts with no state and one checkpoint
\* file, the snapshot of such a state, in the directory.
Init ==
    /\ states = AgentState
    /\ transitions \in {create_social_media_statechart, GuardedDecidesChart,
                        SelfLoopChart, SingleGuardedChart}
    /\ initial = "idle"
    /\ constructed = StatechartInit(states, transitions, initial)
    /\ call = NoCall
    /\ config \in [max_rounds : 1..MaxRounds,
                   checkpoint_frequency : 1..MaxFrequency,
                   checkpoint_dir : BOOLEAN]
    /\ wiring \in Wirings
    /\ wiring.decision_executor = "double" =>
            transitions = create_social_media_statechart
    /\ \E s \in AgentState, t \in InitTicks, r \in 0..MaxStartRound,
          likes \in 0..1, version \in FileVersions :
          LET ags == [i \in 1..NumAgents |->
                        IF i = 1 THEN SocialAgent(i, s, t)
                        ELSE SocialAgent(i, "idle", 0)]
              ps == <<[Post("p1") EXCEPT !.likes = likes]>>
              ms == EngagementMetrics(likes, 0, 0, 0)
          IN  IF wiring.entry = "run_simulation"
              THEN /\ likes = 0 /\ version = "1.0"
                   /\ agents = ags
                   /\ posts = ps
                   /\ metrics = ms
                   /\ round_number = r
                   /\ disk = <<>>
              ELSE /\ agents = <<>>
                   /\ posts = <<>>
                   /\ metrics = EngagementMetrics(0, 0, 0, 0)
                   /\ round_number = 0
                   /\ disk = [f \in {r} |->
                                [CheckpointData(r, ps, ags, ms)
                                    EXCEPT !.version = version]]
    /\ tmpfiles = <<>>
    /\ file_handle = IF wiring.log_file THEN "open" ELSE "none"
    /\ index = {"p1", "p2"}
    /\ ctl = [pc |-> "start", remaining |-> 0, i |-> 1,
              checkpointer |-> FALSE, start_round |-> round_number]
    /\ turn = [i \in 1..NumAgents |-> NoTurn]
    /\ decisions = <<>>
    /\ rounds = <<>>
    /\ log = <<>>
    /\ outcome = Pending

\* ------------------------------------------------------------------------
\* The run: entry points
\* ------------------------------------------------------------------------
SimulationResult(cfg) ==
    [status |-> "returned", error |-> None, total_rounds |-> cfg.max_rounds]

Raised(error) == [status |-> "raised", error |-> error, total_rounds |-> 0]

\* the `for _ in range(n)` loop is entered, or the result is returned
EnterLoop(n, start_round) ==
    IF RangeLen(n) > 0
    THEN /\ ctl' = [pc |-> "run_round", remaining |-> RangeLen(n), i |-> 1,
                    checkpointer |-> config.checkpoint_dir,
                    start_round |-> start_round]
         /\ outcome' = outcome
    ELSE /\ ctl' = [pc |-> "returned", remaining |-> 0, i |-> 1,
                    checkpointer |-> config.checkpoint_dir,
                    start_round |-> start_round]
         /\ outcome' = SimulationResult(config)

RunSimulation ==
    /\ constructed
    /\ ctl.pc = "start"
    /\ wiring.entry = "run_simulation"
    /\ EnterLoop(config.max_rounds, round_number)
    /\ UNCHANGED <<chartVars, tmpfiles, config, wiring, file_handle, agents,
                   posts, round_number, metrics, index, turn, decisions,
                   rounds, disk, log>>

\* resume running max_rounds rounds whatever the checkpoint's round is
ResumeFromCheckpoint_fullRun ==
    /\ constructed
    /\ ctl.pc = "start"
    /\ wiring.entry = "resume_from_checkpoint"
    /\ \E path \in DOMAIN disk :
          LET loaded == Load(disk[path], wiring.agent_factory)
          IN  IF loaded.error # None
              THEN /\ ctl' = [ctl EXCEPT !.pc = "raised"]
                   /\ outcome' = Raised(loaded.error)
                   /\ UNCHANGED <<agents, posts, round_number, metrics>>
              ELSE /\ agents' = loaded.agents
                   /\ posts' = loaded.posts
                   /\ round_number' = loaded.round_number
                   /\ metrics' = loaded.metrics
                   /\ EnterLoop(config.max_rounds, loaded.round_number)
    /\ UNCHANGED <<chartVars, tmpfiles, config, wiring, file_handle, index,
                   turn, decisions, rounds, disk, log>>

ResumeFromCheckpoint ==
    /\ constructed
    /\ ctl.pc = "start"
    /\ wiring.entry = "resume_from_checkpoint"
    /\ \E path \in DOMAIN disk :
          LET loaded == Load(disk[path], wiring.agent_factory)
          IN  IF loaded.error # None
              THEN /\ ctl' = [ctl EXCEPT !.pc = "raised"]
                   /\ outcome' = Raised(loaded.error)
                   /\ UNCHANGED <<agents, posts, round_number, metrics>>
              ELSE /\ agents' = loaded.agents
                   /\ posts' = loaded.posts
                   /\ round_number' = loaded.round_number
                   /\ metrics' = loaded.metrics
                   /\ EnterLoop(config.max_rounds - loaded.round_number,
                                loaded.round_number)
    /\ UNCHANGED <<chartVars, tmpfiles, config, wiring, file_handle, index,
                   turn, decisions, rounds, disk, log>>

\* ------------------------------------------------------------------------
\* The run: one agent's turn (AgentRoundExecutor.execute)
\* ------------------------------------------------------------------------
InTurn == {"feed", "decision", "reasoner", "state", "logging", "return"}

\* run_round awaits each execute before it takes the next agent
CanStartTurn_noAwait(i) ==
    /\ ctl.i <= i
    /\ turn[i].phase = "waiting"

CanStartTurn(i) ==
    /\ ctl.i = i
    /\ turn[i].phase = "waiting"

\* an exception leaves the turn, run_round and the entry point
Fail_swallowed(i, error) ==
    /\ turn' = [turn EXCEPT ![i].phase = "failed", ![i].error = error]
    /\ ctl' = [ctl EXCEPT !.i = i + 1]
    /\ outcome' = outcome

Fail(i, error) ==
    /\ turn' = [turn EXCEPT ![i].phase = "failed", ![i].error = error]
    /\ ctl' = [ctl EXCEPT !.pc = "raised"]
    /\ outcome' = Raised(error)

StartTurn(i) ==
    /\ ctl.pc = "run_round"
    /\ CanStartTurn(i)
    /\ turn' = [turn EXCEPT ![i].phase = "feed"]
    /\ UNCHANGED <<chartVars, tmpfiles, config, wiring, file_handle, agents,
                   posts, round_number, metrics, index, ctl, decisions,
                   rounds, disk, log, outcome>>

\* FeedRetrievalExecutor.execute_async: get_feed(agent.interests) on a
\* worker thread, awaited; the query embeds the interests, and an
\* embedding call that fails for good raises out of get_feed
FeedExecute(i) ==
    /\ ctl.pc = "run_round"
    /\ turn[i].phase = "feed"
    /\ IF agents[i].is_dict
       THEN Fail(i, "AttributeError")
       ELSE IF index = {}
       THEN Fail(i, "RuntimeError")
       ELSE \/ /\ \E feed \in get_feed(index) :
                     turn' = [turn EXCEPT ![i].phase = "decision",
                                          ![i].feed = feed]
               /\ UNCHANGED <<ctl, outcome>>
            \/ Fail(i, "TimeoutException")
    /\ UNCHANGED <<chartVars, tmpfiles, config, wiring, file_handle, agents,
                   posts, round_number, metrics, index, decisions, rounds,
                   disk, log>>

\* the end of AgentDecisionExecutor.execute, once new_state is known
FinishDecision(i, agent, from_state, trigger, new_state, reasoner_used) ==
    LET d == DecisionEnd(agent, from_state, trigger, new_state,
                         reasoner_used, turn[i].feed, round_number)
        answer == IF reasoner_used THEN new_state ELSE None
    IN  /\ agents' = [agents EXCEPT ![i] = d.agent]
        /\ IF d.error # None
           THEN /\ turn' = [turn EXCEPT ![i].phase = "failed",
                                        ![i].error = d.error,
                                        ![i].trigger = trigger,
                                        ![i].from_state = from_state,
                                        ![i].answer = answer,
                                        ![i].reasoner_used = reasoner_used]
                /\ ctl' = [ctl EXCEPT !.pc = "raised"]
                /\ outcome' = Raised(d.error)
           ELSE /\ turn' = [turn EXCEPT ![i].phase = "state",
                                        ![i].trigger = trigger,
                                        ![i].from_state = from_state,
                                        ![i].answer = answer,
                                        ![i].reasoner_used = reasoner_used,
                                        ![i].decision = d.decision]
                /\ UNCHANGED <<ctl, outcome>>

\* AgentDecisionExecutor.execute up to its only await, or to its end
DecisionExecute(i) ==
    /\ ctl.pc = "run_round"
    /\ turn[i].phase = "decision"
    /\ wiring.decision_executor = "AgentDecisionExecutor"
    /\ LET b == DecisionBegin(agents[i], transitions, turn[i].feed,
                              wiring.reasoner)
       IN  IF b.awaits
           THEN /\ agents' = [agents EXCEPT ![i] = b.agent]
                /\ turn' = [turn EXCEPT ![i].phase = "reasoner",
                                        ![i].trigger = b.trigger,
                                        ![i].from_state = b.from_state,
                                        ![i].targets = b.targets]
                /\ UNCHANGED <<ctl, outcome>>
           ELSE FinishDecision(i, b.agent, b.from_state, b.trigger,
                               b.new_state, FALSE)
    /\ UNCHANGED <<chartVars, tmpfiles, config, wiring, file_handle, posts,
                   round_number, metrics, index, decisions, rounds, disk,
                   log>>

\* a reasoner that answers with any state, offered or not
ReasonerDecide_anyState(i) ==
    /\ ctl.pc = "run_round"
    /\ turn[i].phase = "reasoner"
    /\ \E answer \in AgentState :
          FinishDecision(i, agents[i], turn[i].from_state, turn[i].trigger,
                         answer, TRUE)
    /\ UNCHANGED <<chartVars, tmpfiles, config, wiring, file_handle, posts,
                   round_number, metrics, index, decisions, rounds, disk,
                   log>>

\* state.reasoner.decide returns one of the options it was given
ReasonerDecide(i) ==
    /\ ctl.pc = "run_round"
    /\ turn[i].phase = "reasoner"
    /\ \E k \in 1..Len(turn[i].targets) :
          FinishDecision(i, agents[i], turn[i].from_state, turn[i].trigger,
                         turn[i].targets[k], TRUE)
    /\ UNCHANGED <<chartVars, tmpfiles, config, wiring, file_handle, posts,
                   round_number, metrics, index, decisions, rounds, disk,
                   log>>

\* an injected decision executor that leaves the agent alone and returns
\* a DecisionResult, or a stand-in object that has the attributes of one
\* and reasoner_used
DoubleDecisionExecute(i) ==
    /\ ctl.pc = "run_round"
    /\ turn[i].phase = "decision"
    /\ wiring.decision_executor = "double"
    /\ LET built == DecisionResultInit(
                        [agent_id |-> agents[i].agent_id,
                         trigger |-> "start_browsing",
                         from_state |-> "idle", to_state |-> "scrolling",
                         action |-> wiring.double_action])
           decision == IF wiring.double_result = "stand_in"
                       THEN [built.value EXCEPT !.stand_in = TRUE,
                                                !.reasoner_used = FALSE]
                       ELSE built.value
       IN  turn' = [turn EXCEPT ![i].phase = "state",
                                ![i].decision = decision]
    /\ UNCHANGED <<chartVars, tmpfiles, config, wiring, file_handle, agents,
                   posts, round_number, metrics, index, ctl, decisions,
                   rounds, disk, log, outcome>>

\* StateUpdate with a round executor that hands the executor a new post
StateUpdate_supplyingPost(i) ==
    /\ ctl.pc = "run_round"
    /\ turn[i].phase = "state"
    /\ LET st == IF turn[i].decision.action = NoAction
                 THEN [posts |-> posts, metrics |-> metrics,
                       index |-> index]
                 ELSE StateUpdateExecute(posts, metrics, index,
                                         turn[i].decision, "p3")
       IN  /\ posts' = st.posts
           /\ metrics' = st.metrics
           /\ index' = st.index
    /\ turn' = [turn EXCEPT ![i].phase =
                    IF wiring.logging THEN "logging" ELSE "return"]
    /\ UNCHANGED <<chartVars, tmpfiles, config, wiring, file_handle, agents,
                   round_number, ctl, decisions, rounds, disk, log, outcome>>

\* StateUpdateExecutor.execute(agent, state, decision)
StateUpdate(i) ==
    /\ ctl.pc = "run_round"
    /\ turn[i].phase = "state"
    /\ LET st == IF turn[i].decision.action = NoAction
                 THEN [posts |-> posts, metrics |-> metrics,
                       index |-> index]
                 ELSE StateUpdateExecute(posts, metrics, index,
                                         turn[i].decision, None)
       IN  /\ posts' = st.posts
           /\ metrics' = st.metrics
           /\ index' = st.index
    /\ turn' = [turn EXCEPT ![i].phase =
                    IF wiring.logging THEN "logging" ELSE "return"]
    /\ UNCHANGED <<chartVars, tmpfiles, config, wiring, file_handle, agents,
                   round_number, ctl, decisions, rounds, disk, log, outcome>>

\* LoggingExecutor.execute(agent, state, decision)
Logging(i) ==
    /\ ctl.pc = "run_round"
    /\ turn[i].phase = "logging"
    /\ LET l == LoggingExecute(turn[i].decision, round_number)
       IN  IF l.error # None
           THEN /\ Fail(i, l.error)
                /\ log' = log
           ELSE /\ log' = Append(log, l.entry)
                /\ turn' = [turn EXCEPT ![i].phase = "return"]
                /\ UNCHANGED <<ctl, outcome>>
    /\ UNCHANGED <<chartVars, tmpfiles, config, wiring, file_handle, agents,
                   posts, round_number, metrics, index, decisions, rounds,
                   disk>>

\* execute returns to run_round: decisions.append(decision)
TurnReturn(i) ==
    /\ ctl.pc = "run_round"
    /\ turn[i].phase = "return"
    /\ decisions' = Append(decisions, turn[i].decision)
    /\ turn' = [turn EXCEPT ![i] = [NoTurn EXCEPT !.phase = "done"]]
    /\ ctl' = [ctl EXCEPT !.i = i + 1]
    /\ UNCHANGED <<chartVars, tmpfiles, config, wiring, file_handle, agents,
                   posts, round_number, metrics, index, rounds, disk, log,
                   outcome>>

\* ------------------------------------------------------------------------
\* The run: the end of a round
\* ------------------------------------------------------------------------
RoundResult(round, ds) == [round_number |-> round, decisions |-> ds]

\* `for agent in state.agents` is exhausted
RoundFinished_early ==
    ctl.i >= Len(agents) /\ \A i \in 1..Len(agents) : turn[i].phase \notin InTurn

RoundFinished == ctl.i = Len(agents) + 1

\* run_round returns; rounds.append, advance_round, checkpoint, next
\* iteration or return
RoundEnd ==
    /\ ctl.pc = "run_round"
    /\ RoundFinished
    /\ rounds' = Append(rounds, RoundResult(round_number, decisions))
    /\ round_number' = advance_round(round_number)
    /\ disk' = IF _should_checkpoint(round_number', config)
                  /\ ctl.checkpointer
               THEN Save(disk, round_number', posts, agents, metrics)
               ELSE disk
    /\ decisions' = <<>>
    /\ turn' = [i \in 1..NumAgents |-> NoTurn]
    /\ IF ctl.remaining > 1
       THEN /\ ctl' = [ctl EXCEPT !.remaining = @ - 1, !.i = 1]
            /\ outcome' = outcome
       ELSE /\ ctl' = [ctl EXCEPT !.remaining = 0, !.i = 1,
                                  !.pc = "returned"]
            /\ outcome' = SimulationResult(config)
    /\ UNCHANGED <<chartVars, tmpfiles, config, wiring, file_handle, agents,
                   posts, metrics, index, log>>

\* main.run_simulation after `await controller.run_simulation(...)` has
\* returned: logging_exec.close(); an exception of the await skips it
MainClose ==
    /\ ctl.pc = "returned"
    /\ file_handle = "open"
    /\ file_handle' = "closed"
    /\ UNCHANGED <<chartVars, config, wiring, agents, posts, round_number,
                   metrics, index, ctl, turn, decisions, rounds, disk,
                   tmpfiles, log, outcome>>

\* LoggingExecutor.__del__, whenever the garbage collector gets to the
\* executor after main.run_simulation was left with an exception
Del ==
    /\ ctl.pc = "raised"
    /\ file_handle = "open"
    /\ file_handle' = "closed"
    /\ UNCHANGED <<chartVars, config, wiring, agents, posts, round_number,
                   metrics, index, ctl, turn, decisions, rounds, disk,
                   tmpfiles, log, outcome>>

Next ==
    \/ RunSimulation
    \/ ResumeFromCheckpoint
    \/ \E i \in 1..NumAgents : StartTurn(i)
    \/ \E i \in 1..NumAgents : FeedExecute(i)
    \/ \E i \in 1..NumAgents : DecisionExecute(i)
    \/ \E i \in 1..NumAgents : ReasonerDecide(i)
    \/ \E i \in 1..NumAgents : DoubleDecisionExecute(i)
    \/ \E i \in 1..NumAgents : StateUpdate(i)
    \/ \E i \in 1..NumAgents : Logging(i)
    \/ \E i \in 1..NumAgents : TurnReturn(i)
    \/ RoundEnd
    \/ MainClose
    \/ Del

Spec == Init /\ [][Next]_vars

\* ------------------------------------------------------------------------
\* The statechart engine as a library
\* ------------------------------------------------------------------------
ChartTriggers == {"decides", "timeout"}
ChartSources == {"evaluating", "scrolling"}
ChartTargets == {"composing", "idle"}

TransitionUniverse ==
    [trigger : ChartTriggers, source : ChartSources, target : ChartTargets,
     guard : GuardKinds, action : ActionKinds]

Charts == UNION {[1..n -> TransitionUniverse] : n \in 0..MaxTransitions}

\* the arguments Statechart(...) is constructed with
ChartArguments ==
    {<<AgentState, "idle">>,
     <<AgentState \ {"composing"}, "idle">>,
     <<AgentState \ {"composing"}, "composing">>}

InitChart ==
    /\ \E a \in ChartArguments : states = a[1] /\ initial = a[2]
    /\ transitions \in Charts
    /\ constructed = StatechartInit(states, transitions, initial)
    /\ call = NoCall
    /\ config = [max_rounds |-> 1, checkpoint_frequency |-> 1,
                 checkpoint_dir |-> FALSE]
    /\ wiring = [entry |-> "run_simulation", agent_factory |-> FALSE,
                 decision_executor |-> "AgentDecisionExecutor",
                 logging |-> FALSE, reasoner |-> FALSE,
                 double_action |-> NoAction,
                 log_file |-> FALSE, double_result |-> "DecisionResult"]
    /\ agents = [i \in 1..NumAgents |-> SocialAgent(i, "idle", 0)]
    /\ posts = <<>>
    /\ index = {}
    /\ metrics = EngagementMetrics(0, 0, 0, 0)
    /\ round_number = 0
    /\ ctl = [pc |-> "library", remaining |-> 0, i |-> 1,
              checkpointer |-> FALSE, start_round |-> 0]
    /\ turn = [i \in 1..NumAgents |-> NoTurn]
    /\ decisions = <<>>
    /\ rounds = <<>>
    /\ disk = <<>>
    /\ tmpfiles = <<>>
    /\ file_handle = "none"
    /\ log = <<>>
    /\ outcome = Pending

\* statechart.fire(trigger, current_state, agent, context)
FireCall(trigger, current_state) ==
    /\ constructed
    /\ LET r == Fire(transitions, trigger, current_state)
       IN  call' = [NoCall EXCEPT !.op = "fire", !.trigger = trigger,
                                  !.state = current_state,
                                  !.result = r.result,
                                  !.selected = r.selected,
                                  !.guards = r.guards,
                                  !.actions = r.actions,
                                  !.raised = r.raised]
    /\ UNCHANGED <<states, transitions, initial, constructed, simVars>>

\* statechart.valid_targets(state, trigger)
ValidTargetsCall(state, trigger) ==
    /\ constructed
    /\ call' = [NoCall EXCEPT !.op = "valid_targets", !.trigger = trigger,
                              !.state = state,
                              !.targets = ValidTargets(transitions, state,
                                                       trigger)]
    /\ UNCHANGED <<states, transitions, initial, constructed, simVars>>

NextChart ==
    \/ \E t \in ChartTriggers, s \in ChartSources : FireCall(t, s)
    \/ \E t \in ChartTriggers, s \in ChartSources : ValidTargetsCall(s, t)

SpecChart == InitChart /\ [][NextChart]_vars

\* ------------------------------------------------------------------------
\* Properties of the statechart engine (SpecChart)
\* ------------------------------------------------------------------------
Matches(t, trigger, source) == t.trigger = trigger /\ t.source = source

\* the transition matches and its guard is absent or returns a truthy value
Qualifies(t, trigger, source) ==
    Matches(t, trigger, source) /\ t.guard \in {"none", "true"}

Least(S) == CHOOSE i \in S : \A j \in S : i <= j

QualifyingAt(trigger, source) ==
    {i \in 1..Len(transitions) : Qualifies(transitions[i], trigger, source)}

MatchingAt(trigger, source) ==
    {i \in 1..Len(transitions) : Matches(transitions[i], trigger, source)}

\* C2: fire returns the target of the first transition, in declaration
\* order, whose trigger and source match and whose guard is absent or
\* truthy, and none when no transition qualifies; a later qualifying
\* transition never overrides an earlier one.
C2_FireReturnsFirstQualifying ==
    call.op = "fire" =>
        LET Q == QualifyingAt(call.trigger, call.state)
        IN  IF Q = {}
            THEN call.result = None
            ELSE call.result = transitions[Least(Q)].target

\* C2 witness: two unguarded transitions with the same (source, trigger)
\* and different targets, and fire returned the first declared target.
C2_Witness ==
    /\ call.op = "fire"
    /\ Len(transitions) >= 2
    /\ Matches(transitions[1], call.trigger, call.state)
    /\ Matches(transitions[2], call.trigger, call.state)
    /\ transitions[1].guard = "none" /\ transitions[2].guard = "none"
    /\ transitions[1].target # transitions[2].target
    /\ call.result = transitions[1].target

\* C3: when fire selects a transition that carries an action, the action
\* runs exactly once before fire returns; the action of a transition that
\* was not selected never runs, and none runs when fire returns none.
C3_SelectedActionRunsOnce ==
    call.op = "fire" =>
        call.actions =
            IF call.selected # 0
               /\ transitions[call.selected].action = "callable"
            THEN <<call.selected>>
            ELSE <<>>

\* C4: a guard that raises during fire counts as a guard that returned
\* false: fire does not propagate the exception, goes on with the next
\* transition in declaration order, and returns the target of the first
\* later qualifying transition, or none when there is none.
C4_GuardExceptionIsFalse ==
    call.op = "fire" =>
        LET Q == QualifyingAt(call.trigger, call.state)
            raising == {i \in MatchingAt(call.trigger, call.state) :
                            transitions[i].guard = "raise"}
        IN  (raising # {} /\ (Q = {} \/ Least(raising) < Least(Q))) =>
                /\ ~call.raised
                /\ \E k \in 1..Len(call.guards) :
                      call.guards[k] = Least(raising)
                /\ IF Q = {}
                   THEN call.result = None
                   ELSE call.result = transitions[Least(Q)].target

\* C4 witness: the first matching guard raised and fire returned the
\* target of a later transition.
C4_Witness ==
    /\ call.op = "fire"
    /\ Len(transitions) >= 2
    /\ Matches(transitions[1], call.trigger, call.state)
    /\ transitions[1].guard = "raise"
    /\ Qualifies(transitions[2], call.trigger, call.state)
    /\ call.result = transitions[2].target
    /\ ~call.raised

\* C5: on a chart that was constructed, valid_targets(s, t) is the list,
\* in declaration order, of the targets of all transitions from s on t,
\* whatever their guards, and each element is one of the chart's states.
C5_ValidTargetsAllInOrder ==
    call.op = "valid_targets" =>
        LET M == MatchingAt(call.trigger, call.state)
            Nth(k) == CHOOSE i \in M :
                        Cardinality({j \in M : j < i}) = k - 1
        IN  /\ Len(call.targets) = Cardinality(M)
            /\ \A k \in 1..Len(call.targets) :
                  /\ call.targets[k] = transitions[Nth(k)].target
                  /\ call.targets[k] \in states

\* C5 witness: two targets were returned, one of them behind a guard that
\* returns false, on a chart whose state set is not the whole enum.
C5_Witness ==
    /\ call.op = "valid_targets"
    /\ Len(call.targets) = 2
    /\ states # AgentState
    /\ \E i \in MatchingAt(call.trigger, call.state) :
          transitions[i].guard = "false"

\* ------------------------------------------------------------------------
\* Properties of a run (Spec)
\* ------------------------------------------------------------------------
Ended == ctl.pc \in {"returned", "raised"}

\* agent i's turn has left AgentDecisionExecutor.execute
Decided(i) ==
    /\ wiring.decision_executor = "AgentDecisionExecutor"
    /\ turn[i].from_state # None
    /\ turn[i].phase \in {"state", "logging", "return", "failed"}

\* C1: whenever (from_state, trigger) has two or more valid targets and a
\* reasoner is present, the decision executor awaits the reasoner, the
\* reasoner's answer becomes to_state and the DecisionResult of the turn
\* has reasoner_used = true (S4: evaluating, the five `decides`
\* transitions, reasoner present).
C1_ReasonerResolvesAmbiguity ==
    \A i \in 1..NumAgents :
        (/\ Decided(i)
         /\ wiring.reasoner
         /\ Len(ValidTargets(transitions, turn[i].from_state,
                             turn[i].trigger)) >= 2) =>
            /\ turn[i].error = None
            /\ turn[i].answer # None
            /\ turn[i].decision.to_state = turn[i].answer
            /\ turn[i].decision.reasoner_used = TRUE
            /\ agents[i].state = turn[i].answer

AgentIds(ds) == [k \in 1..Len(ds) |-> ds[k].agent_id]

ListOrder == [k \in 1..Len(agents) |-> agents[k].agent_id]

\* C6: run_simulation executes exactly max_rounds rounds, and in each of
\* them every agent takes one turn, in list order, its decision recorded in
\* that order: max_rounds * len(agents) decisions.
C6_RunExecutesMaxRounds ==
    (Ended /\ wiring.entry = "run_simulation") =>
        /\ Len(rounds) = config.max_rounds
        /\ \A r \in 1..Len(rounds) :
              AgentIds(rounds[r].decisions) = ListOrder

\* C7: round_number only ever changes by +1, once per round and only when
\* every agent of the round has completed its turn; after run_simulation
\* started at round r0 it is r0 + max_rounds.
C7_RoundNumberAdvancesByOne ==
    /\ [][round_number' # round_number =>
            /\ round_number' = round_number + 1
            /\ \A i \in 1..NumAgents : turn[i].phase = "done"
            /\ Len(rounds') = Len(rounds) + 1]_vars
    /\ []((Ended /\ wiring.entry = "run_simulation") =>
            round_number = ctl.start_round + config.max_rounds)

\* C8: one agent's turn completes before the next one begins: at most one
\* turn is in progress, an agent's turn has begun only when the turns of
\* all agents before it in the list are complete, and the simulation state
\* is changed within a round only while exactly one turn is in progress.
C8_TurnsDoNotOverlap ==
    /\ [](\A i, j \in 1..NumAgents :
            /\ (i # j) => ~(turn[i].phase \in InTurn /\ turn[j].phase \in InTurn)
            /\ (i < j /\ turn[j].phase # "waiting") => turn[i].phase = "done")
    /\ [][(ctl.pc = "run_round" /\ ctl'.pc # "returned" /\
           <<agents, posts, metrics, index>>' #
                <<agents, posts, metrics, index>>) =>
            Cardinality({i \in 1..NumAgents : turn[i].phase \in InTurn}) = 1
         ]_vars

\* C8 witness: the second agent's feed retrieval is running on the worker
\* thread and the first agent's turn is complete.
C8_Witness ==
    /\ NumAgents >= 2
    /\ turn[1].phase = "done"
    /\ turn[2].phase = "feed"

\* the checkpoint files this step wrote
Written == {r \in DOMAIN disk' : r \notin DOMAIN disk \/ disk'[r] # disk[r]}

\* C9: after each round's advance a checkpoint is saved iff checkpoint_dir
\* is set and the new round_number is a multiple of checkpoint_frequency;
\* a fresh run from round 0 writes the checkpoints of rounds f, 2f, ... up
\* to max_rounds and no other.
C9_CheckpointAtFrequency ==
    /\ [][/\ round_number' # round_number =>
                (round_number' \in Written <=>
                    (config.checkpoint_dir /\
                     round_number' % config.checkpoint_frequency = 0))
          /\ Written \subseteq {round_number'}
          /\ (Written # {} => round_number' # round_number)]_vars
    /\ []((Ended /\ wiring.entry = "run_simulation" /\ ctl.start_round = 0) =>
            DOMAIN disk =
                {k \in 1..config.max_rounds :
                    config.checkpoint_dir /\
                    k % config.checkpoint_frequency = 0})

\* number of turns agent_id has completed in the run
TurnsTaken(agent_id, rs, ds) ==
    Cardinality({p \in UNION {{<<r, k>> : k \in 1..Len(rs[r].decisions)} :
                              r \in 1..Len(rs)} :
                    rs[p[1]].decisions[p[2]].agent_id = agent_id})
    + Cardinality({k \in 1..Len(ds) : ds[k].agent_id = agent_id})

\* C10: a checkpoint is written only between rounds: when a file is
\* written no turn is in progress, every agent has completed the same
\* number of turns, the file holds the state as it then is, and for a run
\* started at round 0 its round_number is the number of completed rounds.
C10_CheckpointBetweenRounds ==
    [][\A r \in Written :
        /\ \A i \in 1..NumAgents : turn'[i].phase \notin InTurn
        /\ \A i, j \in 1..NumAgents :
              TurnsTaken(agents'[i].agent_id, rounds', decisions') =
              TurnsTaken(agents'[j].agent_id, rounds', decisions')
        /\ disk'[r] = CheckpointData(round_number', posts', agents', metrics')
        /\ (wiring.entry = "run_simulation" /\ ctl.start_round = 0) =>
              /\ disk'[r].round_number = Len(rounds')
              /\ disk'[r].round_number =
                    TurnsTaken(agents'[1].agent_id, rounds', decisions')
      ]_vars

\* C10 witness: a run with two agents has written a checkpoint.
C10_Witness ==
    /\ NumAgents >= 2
    /\ wiring.entry = "run_simulation"
    /\ ctl.start_round = 0
    /\ \E r \in DOMAIN disk : disk[r].round_number = 2

\* the step in which resume_from_checkpoint has loaded the checkpoint
Resumed ==
    /\ wiring.entry = "resume_from_checkpoint"
    /\ ctl.pc = "start"
    /\ ctl'.pc \in {"run_round", "returned"}

\* C11: a run resumed from the checkpoint of round R (written by save)
\* starts from the checkpoint's round_number and metrics, executes exactly
\* max_rounds - R further rounds and ends with round_number = max_rounds,
\* no metric lower than in the checkpoint.
C11_ResumeRunsToMaxRounds ==
    /\ [][Resumed =>
            /\ round_number' \in DOMAIN disk
            /\ round_number' = disk[round_number'].round_number
            /\ metrics' = disk[round_number'].metrics]_vars
    /\ [](\A R \in DOMAIN disk :
            (/\ Ended
             /\ wiring.entry = "resume_from_checkpoint"
             /\ ctl.start_round = R
             /\ disk[R].round_number = R
             /\ Version(disk[R]) \in SUPPORTED_VERSIONS) =>
                /\ Len(rounds) = config.max_rounds - R
                /\ round_number = config.max_rounds
                /\ metrics.total_likes >= disk[R].metrics.total_likes)

\* C14: a resume from a checkpoint file whose version is not supported,
\* or that has no version field, ends with the load's error before
\* anything is reconstructed: no agent, post or metric of the file enters
\* the simulation state, no turn is taken and no round is executed.
C14_UnsupportedVersionRejected ==
    (/\ wiring.entry = "resume_from_checkpoint"
     /\ ctl.pc # "start"
     /\ \E R \in DOMAIN disk : Version(disk[R]) \notin SUPPORTED_VERSIONS) =>
        /\ ctl.pc = "raised"
        /\ outcome = Raised("ValueError")
        /\ agents = <<>> /\ posts = <<>>
        /\ metrics = EngagementMetrics(0, 0, 0, 0)
        /\ round_number = 0
        /\ rounds = <<>> /\ decisions = <<>>
        /\ \A i \in 1..NumAgents : turn[i] = NoTurn

\* C14 witness: a resume from a file without a version field that holds a
\* round, an agent outside idle and a counted like has been rejected.
C14_Witness ==
    /\ wiring.entry = "resume_from_checkpoint"
    /\ ctl.pc = "raised"
    /\ outcome.error = "ValueError"
    /\ \E R \in DOMAIN disk :
          /\ disk[R].version = None
          /\ R = 1
          /\ disk[R].metrics.total_likes = 1
          /\ disk[R].agents[1].state = "scrolling"

\* ------------------------------------------------------------------------
\* The checkpointer as a library
\* ------------------------------------------------------------------------
\* rounds at which a state is saved, on both sides of the padding width
CheckpointRounds == {0, 1, 9999, 10000}

NoCheckpointerCall ==
    [op |-> None, pc |-> None, path |-> None, agent_factory |-> FALSE,
     after_save |-> FALSE, result |-> None]

SaveInProgress == call.pc \in {"write", "rename"}

\* A Checkpointer on a directory that holds the good checkpoints of some
\* earlier rounds, and the SimulationState that is to be saved.
InitCheckpointer ==
    /\ states = AgentState
    /\ transitions = create_social_media_statechart
    /\ initial = "idle"
    /\ constructed = StatechartInit(states, transitions, initial)
    /\ call = NoCheckpointerCall
    /\ config = [max_rounds |-> 1, checkpoint_frequency |-> 1,
                 checkpoint_dir |-> TRUE]
    /\ wiring = [entry |-> "run_simulation", agent_factory |-> FALSE,
                 decision_executor |-> "AgentDecisionExecutor",
                 logging |-> FALSE, reasoner |-> FALSE,
                 double_action |-> NoAction,
                 log_file |-> FALSE, double_result |-> "DecisionResult"]
    /\ \E s \in AgentState, t \in InitTicks, likes \in 0..1 :
          /\ agents = [i \in 1..NumAgents |->
                        IF i = 1 THEN SocialAgent(i, s, t)
                        ELSE SocialAgent(i, "idle", 0)]
          /\ posts = <<[Post("p1") EXCEPT !.likes = likes]>>
          /\ metrics = EngagementMetrics(likes, 0, 0, 0)
    /\ round_number \in CheckpointRounds
    /\ \E earlier \in SUBSET CheckpointRounds :
          disk = [r \in earlier |->
                    CheckpointData(r, <<>>,
                        [i \in 1..NumAgents |-> SocialAgent(i, "idle", 0)],
                        EngagementMetrics(0, 0, 0, 0))]
    /\ tmpfiles = <<>>
    /\ file_handle = "none"
    /\ index = {}
    /\ ctl = [pc |-> "checkpointer", remaining |-> 0, i |-> 1,
              checkpointer |-> TRUE, start_round |-> 0]
    /\ turn = [i \in 1..NumAgents |-> NoTurn]
    /\ decisions = <<>>
    /\ rounds = <<>>
    /\ log = <<>>
    /\ outcome = Pending

\* the directory with one file set to a content
WriteFile(files, path, content) ==
    [r \in (DOMAIN files) \cup {path} |->
        IF r = path THEN content ELSE files[r]]

RemoveFile(files, path) == [r \in (DOMAIN files) \ {path} |-> files[r]]

\* save: the data is built and open(temp_path, "w") creates or empties
\* the file
SaveOpen ==
    /\ ctl.pc = "checkpointer"
    /\ ~SaveInProgress
    /\ call' = [NoCheckpointerCall EXCEPT !.op = "save", !.pc = "write",
                                          !.path = round_number]
    /\ IF SaveTarget = "tmp"
       THEN /\ tmpfiles' = WriteFile(tmpfiles, round_number, Truncated)
            /\ disk' = disk
       ELSE /\ disk' = WriteFile(disk, round_number, Truncated)
            /\ tmpfiles' = tmpfiles
    /\ UNCHANGED <<states, transitions, initial, constructed, config, wiring,
                   file_handle, agents, posts, round_number, metrics, index,
                   ctl, turn, decisions, rounds, log, outcome>>

\* save: json.dump wrote the whole text and the file is closed
SaveWrite ==
    /\ ctl.pc = "checkpointer"
    /\ call.pc = "write"
    /\ call' = [call EXCEPT !.pc = "rename"]
    /\ LET data == CheckpointData(round_number, posts, agents, metrics)
       IN  IF SaveTarget = "tmp"
           THEN /\ tmpfiles' = WriteFile(tmpfiles, call.path, data)
                /\ disk' = disk
           ELSE /\ disk' = WriteFile(disk, call.path, data)
                /\ tmpfiles' = tmpfiles
    /\ UNCHANGED <<states, transitions, initial, constructed, config, wiring,
                   file_handle, agents, posts, round_number, metrics, index,
                   ctl, turn, decisions, rounds, log, outcome>>

\* save: the write raises (OSError); nothing in save or _save_checkpoint
\* catches it
SaveWriteRaises ==
    /\ ctl.pc = "checkpointer"
    /\ call.pc = "write"
    /\ call' = [call EXCEPT !.pc = "raised", !.result = "OSError"]
    /\ outcome' = Raised("OSError")
    /\ UNCHANGED <<states, transitions, initial, constructed, config, wiring,
                   file_handle, agents, posts, round_number, metrics, index,
                   ctl, turn, decisions, rounds, disk, tmpfiles, log>>

\* save: temp_path.rename(path), and the path is returned
SaveRename ==
    /\ ctl.pc = "checkpointer"
    /\ call.pc = "rename"
    /\ call' = [call EXCEPT !.pc = "returned", !.result = call.path]
    /\ IF SaveTarget = "tmp"
       THEN /\ disk' = WriteFile(disk, call.path, tmpfiles[call.path])
            /\ tmpfiles' = RemoveFile(tmpfiles, call.path)
       ELSE UNCHANGED <<disk, tmpfiles>>
    /\ UNCHANGED <<states, transitions, initial, constructed, config, wiring,
                   file_handle, agents, posts, round_number, metrics, index,
                   ctl, turn, decisions, rounds, log, outcome>>

\* the process dies while save is running
Die ==
    /\ ctl.pc = "checkpointer"
    /\ SaveInProgress
    /\ ctl' = [ctl EXCEPT !.pc = "dead"]
    /\ UNCHANGED <<chartVars, config, wiring, file_handle, agents, posts,
                   round_number, metrics, index, turn, decisions, rounds,
                   disk, tmpfiles, log, outcome>>

\* load(path, statechart, reasoner, agent_factory)
LoadCall(path, agent_factory) ==
    /\ ctl.pc = "checkpointer"
    /\ ~SaveInProgress
    /\ path \in DOMAIN disk
    /\ call' = [NoCheckpointerCall EXCEPT
                  !.op = "load", !.pc = "returned", !.path = path,
                  !.agent_factory = agent_factory,
                  !.after_save = (/\ call.op = "save"
                                  /\ call.pc = "returned"
                                  /\ call.path = path),
                  !.result = IF IsComplete(disk[path])
                             THEN Load(disk[path], agent_factory)
                             ELSE [error |-> "JSONDecodeError"]]
    /\ UNCHANGED <<states, transitions, initial, constructed, simVars>>

\* latest_checkpoint()
LatestCheckpointCall ==
    /\ ctl.pc = "checkpointer"
    /\ ~SaveInProgress
    /\ call' = [NoCheckpointerCall EXCEPT
                  !.op = "latest_checkpoint", !.pc = "returned",
                  !.result = latest_checkpoint(DOMAIN disk)]
    /\ UNCHANGED <<states, transitions, initial, constructed, simVars>>

NextCheckpointer ==
    \/ SaveOpen
    \/ SaveWrite
    \/ SaveWriteRaises
    \/ SaveRename
    \/ Die
    \/ \E path \in CheckpointRounds, f \in BOOLEAN : LoadCall(path, f)
    \/ LatestCheckpointCall

SpecCheckpointer == InitCheckpointer /\ [][NextCheckpointer]_vars

\* ------------------------------------------------------------------------
\* Properties of the checkpointer (SpecCheckpointer)
\* ------------------------------------------------------------------------
PostIds(ps) == {ps[k].id : k \in 1..Len(ps)}

AgentMapping(ags) ==
    {<<ags[i].agent_id, ags[i].state, ags[i].ticks_in_state>> :
        i \in 1..Len(ags)}

C13_VisibleCheckpointsComplete ==
    /\ [](\A r \in DOMAIN disk :
            /\ IsComplete(disk[r])
            /\ disk[r].round_number = r)
    /\ [][/\ (disk' # disk) =>
                /\ call.pc = "rename" /\ call'.pc = "returned"
                /\ \A r \in DOMAIN disk : r \in DOMAIN disk'
                /\ \A r \in DOMAIN disk' :
                      r # call.path => (r \in DOMAIN disk /\ disk'[r] = disk[r])
          /\ (call.pc = "write" /\ call'.pc = "raised") =>
                /\ disk' = disk
                /\ outcome'.status = "raised"
          /\ (ctl'.pc = "dead") => disk' = disk]_vars

\* C13 witness: the write of a checkpoint failed while an earlier good
\* checkpoint has the same final name.
C13_Witness ==
    /\ call.op = "save"
    /\ call.pc = "raised"
    /\ call.path \in DOMAIN disk
    /\ call.path \in DOMAIN tmpfiles
    /\ ~IsComplete(tmpfiles[call.path])

Highest(S) == CHOOSE r \in S : \A q \in S : q <= r

\* C15: latest_checkpoint returns the file with the highest round among
\* the checkpoint files of the directory, and none when there is no file.
C15_LatestIsHighestRound ==
    (call.op = "latest_checkpoint") =>
        IF DOMAIN disk = {}
        THEN call.result = None
        ELSE call.result = Highest(DOMAIN disk)

\* ------------------------------------------------------------------------
\* The agent as a library
\* ------------------------------------------------------------------------
NoAgentCall ==
    [op |-> None, before |-> None, new_state |-> None, trigger |-> None,
     feed |-> <<>>, relevance |-> None, result |-> None]

\* the engagement_threshold the constructor is given and the relevance
\* should_engage is called with, in tenths
EngagementThresholds == {-2, 0, 5, 10, 15}

Relevances == {0, 4, 5, 6, 10}

\* the feeds determine_trigger is called with
Feeds == {<<>>, <<"p1">>, <<"p1", "p2">>}

\* the states transition_to is called with
TransitionTargets == {"idle", "scrolling", "evaluating"}

\* One agent, as its constructor leaves it for the timeout_threshold and
\* max_history_depth it was given (a threshold <= 0 is refused, a depth
\* is not checked), in a state an earlier transition brought it to.
InitAgent ==
    /\ states = AgentState
    /\ transitions = create_social_media_statechart
    /\ initial = "idle"
    /\ constructed = StatechartInit(states, transitions, initial)
    /\ call = NoAgentCall
    /\ config = [max_rounds |-> 1, checkpoint_frequency |-> 1,
                 checkpoint_dir |-> FALSE]
    /\ wiring = [entry |-> "run_simulation", agent_factory |-> FALSE,
                 decision_executor |-> "AgentDecisionExecutor",
                 logging |-> FALSE, reasoner |-> FALSE,
                 double_action |-> NoAction,
                 log_file |-> FALSE, double_result |-> "DecisionResult"]
    /\ \E s \in AgentState, threshold \in 1..MaxThreshold,
          depth \in 0..MaxHistoryDepth,
          engagement_threshold \in EngagementThresholds :
          agents = <<[SocialAgent(1, s, 0) EXCEPT
                        !.timeout_threshold = threshold,
                        !.max_history_depth = depth,
                        !.engagement_threshold = engagement_threshold]>>
    /\ posts = <<>>
    /\ index = {}
    /\ metrics = EngagementMetrics(0, 0, 0, 0)
    /\ round_number = 0
    /\ ctl = [pc |-> "agent", remaining |-> 0, i |-> 0,
              checkpointer |-> FALSE, start_round |-> 0]
    /\ turn = [i \in 1..NumAgents |-> NoTurn]
    /\ decisions = <<>>
    /\ rounds = <<>>
    /\ disk = <<>>
    /\ tmpfiles = <<>>
    /\ file_handle = "none"
    /\ log = <<>>
    /\ outcome = Pending

\* agent.tick()
TickCall ==
    /\ ctl.pc = "agent"
    /\ ctl.i < MaxCalls
    /\ ctl' = [ctl EXCEPT !.i = @ + 1]
    /\ call' = [NoAgentCall EXCEPT !.op = "tick", !.before = agents[1]]
    /\ agents' = <<tick(agents[1])>>
    /\ UNCHANGED <<states, transitions, initial, constructed, config, wiring,
                   file_handle, posts, round_number, metrics, index, turn,
                   decisions, rounds, disk, tmpfiles, log, outcome>>

\* agent.transition_to(new_state, trigger, context)
TransitionToCall(new_state, trigger) ==
    /\ ctl.pc = "agent"
    /\ ctl.i < MaxCalls
    /\ ctl' = [ctl EXCEPT !.i = @ + 1]
    /\ call' = [NoAgentCall EXCEPT !.op = "transition_to",
                                   !.before = agents[1],
                                   !.new_state = new_state,
                                   !.trigger = trigger]
    /\ agents' = <<transition_to(agents[1], new_state, trigger, None)>>
    /\ UNCHANGED <<states, transitions, initial, constructed, config, wiring,
                   file_handle, posts, round_number, metrics, index, turn,
                   decisions, rounds, disk, tmpfiles, log, outcome>>

\* agent.is_timed_out()
IsTimedOutCall ==
    /\ ctl.pc = "agent"
    /\ call' = [NoAgentCall EXCEPT !.op = "is_timed_out",
                                   !.before = agents[1],
                                   !.result = is_timed_out(agents[1])]
    /\ UNCHANGED <<states, transitions, initial, constructed, simVars>>

\* determine_trigger(agent, feed, state)
DetermineTriggerCall(feed) ==
    /\ ctl.pc = "agent"
    /\ call' = [NoAgentCall EXCEPT !.op = "determine_trigger",
                                   !.before = agents[1],
                                   !.feed = feed,
                                   !.result = determine_trigger(agents[1],
                                                                feed)]
    /\ UNCHANGED <<states, transitions, initial, constructed, simVars>>

\* agent.should_engage(relevance)
ShouldEngageCall(relevance) ==
    /\ ctl.pc = "agent"
    /\ call' = [NoAgentCall EXCEPT !.op = "should_engage",
                                   !.before = agents[1],
                                   !.relevance = relevance,
                                   !.result = should_engage(agents[1],
                                                            relevance)]
    /\ UNCHANGED <<states, transitions, initial, constructed, simVars>>

\* the agent is written to a checkpoint by _serialize_agent and built
\* again from the dict by an agent_factory
ReconstructCall ==
    /\ ctl.pc = "agent"
    /\ ctl.i < MaxCalls
    /\ ctl' = [ctl EXCEPT !.i = @ + 1]
    /\ call' = [NoAgentCall EXCEPT !.op = "reconstruct",
                                   !.before = agents[1]]
    /\ agents' = <<[ReconstructAgent(_serialize_agent(agents[1]), TRUE)
                      EXCEPT
                        !.timeout_threshold = agents[1].timeout_threshold,
                        !.max_history_depth =
                            agents[1].max_history_depth]>>
    /\ UNCHANGED <<states, transitions, initial, constructed, config,
                   wiring, file_handle, posts, round_number, metrics,
                   index, turn, decisions, rounds, disk, tmpfiles, log,
                   outcome>>

NextAgent ==
    \/ TickCall
    \/ \E s \in TransitionTargets : TransitionToCall(s, "decides")
    \/ IsTimedOutCall
    \/ \E feed \in Feeds : DetermineTriggerCall(feed)
    \/ \E relevance \in Relevances : ShouldEngageCall(relevance)
    \/ ReconstructCall

SpecAgent == InitAgent /\ [][NextAgent]_vars

\* ------------------------------------------------------------------------
\* Properties of the agent (SpecAgent)
\* ------------------------------------------------------------------------
Applied == call.op = "transition_to" /\ call.new_state # call.before.state

\* C16: ticks_in_state is never negative, and it is 0 right after a
\* transition_to that changed the state.
C16_TicksNonNegativeAndReset ==
    /\ agents[1].ticks_in_state >= 0
    /\ Applied => (agents[1].ticks_in_state = 0
                   /\ agents[1].state = call.new_state)

\* C16 witness: a transition was applied to an agent that had ticks.
C16_Witness ==
    /\ Applied
    /\ call.before.ticks_in_state >= 2
    /\ agents[1].ticks_in_state = 0

\* C17: the history never holds more than max_history_depth entries,
\* whatever max_history_depth the agent was constructed with, and what is
\* dropped is the oldest entries.
C17_HistoryWithinDepth ==
    /\ Len(agents[1].state_history) <= agents[1].max_history_depth
    /\ Applied =>
          LET appended == Append(call.before.state_history,
                                 [from_state |-> call.before.state,
                                  to_state |-> call.new_state,
                                  trigger |-> call.trigger,
                                  context |-> None])
              kept == Len(agents[1].state_history)
          IN  agents[1].state_history =
                SubSeq(appended, Len(appended) - kept + 1, Len(appended))

\* C18: is_timed_out() is ticks_in_state > timeout_threshold: false when
\* the ticks equal the threshold, true one tick later.
C18_TimedOutIsStrict ==
    (call.op = "is_timed_out") =>
        /\ call.result =
              (agents[1].ticks_in_state > agents[1].timeout_threshold)
        /\ (agents[1].ticks_in_state = agents[1].timeout_threshold) =>
              call.result = FALSE
        /\ (agents[1].ticks_in_state = agents[1].timeout_threshold + 1) =>
              call.result = TRUE

\* C18 witness: is_timed_out was called with the ticks at the threshold.
C18_Witness ==
    /\ call.op = "is_timed_out"
    /\ agents[1].ticks_in_state = agents[1].timeout_threshold
    /\ call.result = FALSE

\* C19: transition_to with the agent's current state changes nothing
\* (state, ticks_in_state, state_history); the history holds applied
\* transitions only, in the order of their application: no entry has
\* from_state = to_state, each entry starts where the one before it ended
\* and the last one ends in the agent's state.
C19_SelfTransitionIsNoOp ==
    /\ (call.op = "transition_to" /\ call.new_state = call.before.state) =>
          agents[1] = call.before
    /\ LET h == agents[1].state_history
       IN  /\ \A k \in 1..Len(h) : h[k].from_state # h[k].to_state
           /\ \A k \in 1..(Len(h) - 1) : h[k].to_state = h[k + 1].from_state
           /\ (h # <<>>) => h[Len(h)].to_state = agents[1].state

\* C19 witness: transition_to with the current state was called on an
\* agent that has ticks and a history.
C19_Witness ==
    /\ call.op = "transition_to"
    /\ call.new_state = call.before.state
    /\ call.before.ticks_in_state > 0
    /\ call.before.state_history # <<>>

\* the mapping of the trigger table
TriggerTable(state, feed) ==
    CASE state = "idle" -> "start_browsing"
      [] state = "scrolling" /\ feed # <<>> -> "sees_post"
      [] state = "scrolling" /\ feed = <<>> -> "feed_empty"
      [] state = "evaluating" -> "decides"
      [] state = "composing" -> "finishes_composing"
      [] state = "engaging_like" -> "finishes_engaging"
      [] state = "engaging_reply" -> "finishes_engaging"
      [] state = "engaging_reshare" -> "finishes_engaging"
      [] state = "resting" -> "rested"

\* C20: determine_trigger yields `timeout` when is_timed_out() is true and
\* the trigger of the table for (state, feed empty or not) otherwise, and
\* it changes nothing.
C20_DetermineTrigger ==
    (call.op = "determine_trigger") =>
        /\ call.result =
              IF agents[1].ticks_in_state > agents[1].timeout_threshold
              THEN "timeout"
              ELSE TriggerTable(agents[1].state, call.feed)
        /\ agents[1] = call.before

\* C20 as the code has it: determine_trigger is a function of the state
\* and of whether the feed is empty alone; it yields the trigger of the
\* table also for an agent that is timed out, never `timeout`, and it
\* changes nothing.
C20_DetermineTriggerIgnoresTimeout ==
    (call.op = "determine_trigger") =>
        /\ call.result = TriggerTable(agents[1].state, call.feed)
        /\ call.result # "timeout"
        /\ agents[1] = call.before

\* C20 witness: determine_trigger was called on a timed-out scrolling
\* agent with a feed of two posts.
C20_Witness ==
    /\ call.op = "determine_trigger"
    /\ agents[1].ticks_in_state > agents[1].timeout_threshold
    /\ agents[1].state = "scrolling"
    /\ Len(call.feed) = 2
    /\ call.result = "sees_post"

\* ------------------------------------------------------------------------
\* Properties of the decision executor's turn
\* ------------------------------------------------------------------------
\* the step that leaves AgentDecisionExecutor.execute's synchronous part
\* for agent i
DecisionStep(i) ==
    /\ wiring.decision_executor = "AgentDecisionExecutor"
    /\ turn[i].phase = "decision"
    /\ turn'[i].phase # "decision"

\* C21: the decision executor ticks the agent first; when the ticked agent
\* is timed out the trigger of the turn is `timeout` whatever the state and
\* the feed are, and for an agent in a non-idle state of the standard chart
\* the turn ends with to_state = idle and ticks_in_state = 0 (S3:
\* timeout_threshold 3, four ticks in scrolling).
C21_TimeoutTakesPrecedence ==
    [][\A i \in 1..NumAgents :
          (DecisionStep(i) /\ is_timed_out(tick(agents[i]))) =>
              /\ turn'[i].trigger = "timeout"
              /\ (/\ agents[i].state # "idle"
                  /\ transitions = create_social_media_statechart) =>
                     /\ turn'[i].error = None
                     /\ turn'[i].decision.to_state = "idle"
                     /\ agents'[i].state = "idle"
                     /\ agents'[i].ticks_in_state = 0]_vars

\* the action the table of _execute_action's docstring gives a state
ActionOfState(s) ==
    CASE s = "composing" -> "compose"
      [] s = "engaging_like" -> "like"
      [] s = "engaging_reply" -> "reply"
      [] s = "engaging_reshare" -> "reshare"
      [] OTHER -> "scroll"

\* C22: the ActionResult of a turn is derived from from_state, never from
\* to_state: composing gives compose, engaging_like, engaging_reply and
\* engaging_reshare give like, reply and reshare on the head of the feed
\* (its id, null for an empty feed), every other state gives scroll.
C22_ActionFromFromState ==
    \A i \in 1..NumAgents :
        Decided(i) =>
            /\ turn[i].error = None
            /\ turn[i].decision.from_state = turn[i].from_state
            /\ turn[i].decision.action.action =
                  ActionOfState(turn[i].from_state)
            /\ turn[i].decision.action.target_post_id =
                  IF /\ turn[i].from_state \in
                          {"engaging_like", "engaging_reply",
                           "engaging_reshare"}
                     /\ turn[i].feed # <<>>
                  THEN turn[i].feed[1]
                  ELSE None

\* ------------------------------------------------------------------------
\* Properties of the state update executor
\* ------------------------------------------------------------------------
\* the step in which StateUpdateExecutor.execute runs for agent i
StateUpdateStep(i) ==
    /\ turn[i].phase = "state"
    /\ turn'[i].phase # "state"

\* the posts of ps whose id is post_id
Resolves(ps, post_id) == {k \in 1..Len(ps) : ps[k].id = post_id}

\* C23: a like action whose target resolves to a post of the state adds
\* exactly 1 to that post's likes and exactly 1 to metrics.total_likes and
\* changes nothing else; a like whose target is null or resolves to no post
\* changes neither the posts nor the metrics.
C23_LikeIncrementsByOne ==
    [][\A i \in 1..NumAgents :
          (/\ StateUpdateStep(i)
           /\ turn[i].decision.action # NoAction
           /\ turn[i].decision.action.action = "like") =>
              LET t == turn[i].decision.action.target_post_id
              IN  IF t # None /\ Resolves(posts, t) # {}
                  THEN /\ Len(posts') = Len(posts)
                       /\ \E k \in Resolves(posts, t) :
                             /\ posts'[k] =
                                   [posts[k] EXCEPT !.likes = @ + 1]
                             /\ \A j \in 1..Len(posts) :
                                   j # k => posts'[j] = posts[j]
                       /\ metrics' =
                             [metrics EXCEPT !.total_likes = @ + 1]
                  ELSE posts' = posts /\ metrics' = metrics]_vars

\* C23 witness: in a run started by run_simulation the first agent's like
\* of p1 has been applied: the post and the metrics both count 1.
C23_Witness ==
    /\ wiring.entry = "run_simulation"
    /\ turn[1].phase = "return"
    /\ turn[1].decision.action = ActionResult("like", "p1")
    /\ posts[1].id = "p1"
    /\ posts[1].likes = 1
    /\ metrics.total_likes = 1

Counters ==
    {"total_likes", "total_reshares", "total_replies", "posts_created"}

\* C24: every counter of metrics is monotonically non-decreasing across
\* any step of a simulation: an executor step and a round advance never
\* lower one, a checkpoint save records the counters as they are, and a
\* resume continues from the counters its checkpoint recorded.
C24_MetricsMonotone ==
    [][/\ \A c \in Counters : metrics'[c] >= metrics[c]
       /\ \A r \in DOMAIN disk' :
             (r \notin DOMAIN disk \/ disk'[r] # disk[r]) =>
                 disk'[r].metrics = metrics
       /\ Resumed =>
             \E r \in DOMAIN disk :
                 \A c \in Counters : metrics'[c] >= disk[r].metrics[c]]_vars

\* C24 witness: a run resumed from a checkpoint that recorded one like
\* has applied a further like and has saved a checkpoint with both.
C24_Witness ==
    /\ wiring.entry = "resume_from_checkpoint"
    /\ ctl.pc = "returned"
    /\ metrics.total_likes >= 2
    /\ \E r \in DOMAIN disk : disk[r].metrics.total_likes >= 2

\* ------------------------------------------------------------------------
\* Properties of the state distribution
\* ------------------------------------------------------------------------
\* sum(d.values())
RECURSIVE SumOver(_, _)
SumOver(d, S) ==
    IF S = {} THEN 0
    ELSE LET s == CHOOSE x \in S : TRUE
         IN  d[s] + SumOver(d, S \ {s})

SumValues(d) == SumOver(d, DOMAIN d)

\* the agents are objects with a `state` attribute, as state_distribution
\* requires (not the raw dicts load returns without an agent_factory)
HasAgentObjects ==
    /\ agents # <<>>
    /\ \A i \in 1..Len(agents) : ~agents[i].is_dict

\* C25: the values of the state distribution sum to the number of agents,
\* for the simulation state at every point of a run and for every
\* checkpoint file (its state_distribution against its agents).
C25_DistributionSumsToAgents ==
    /\ HasAgentObjects =>
            SumValues(state_distribution(agents)) = Len(agents)
    /\ \A r \in DOMAIN disk :
            IsComplete(disk[r]) =>
                /\ DOMAIN disk[r].state_distribution = AgentState
                /\ SumValues(disk[r].state_distribution) =
                      Len(disk[r].agents)

\* C25 witness: a run started by run_simulation has written a checkpoint
\* while both agents were idle: the distribution counts 2 for one state.
C25_Witness ==
    /\ wiring.entry = "run_simulation"
    /\ HasAgentObjects
    /\ state_distribution(agents)["idle"] = NumAgents
    /\ \E r \in DOMAIN disk :
            /\ disk[r].state_distribution["idle"] = NumAgents
            /\ Len(disk[r].agents) = NumAgents

\* ------------------------------------------------------------------------
\* The reasoner as a library
\* ------------------------------------------------------------------------
\* What `await self._client.run(prompt)` can end with: an exception, a
\* value that is not text, text that is not JSON, JSON that is not an
\* object, or a JSON object whose "next_state" is missing, null, a number
\* or a string.
Missing == "<missing>"
JsonNull == "<null>"
JsonNumber == "<number>"

StateStrings ==
    AgentState \cup {"ENGAGING_LIKE", "Composing", "dancing", ""}

Response(kind, next_state) == [kind |-> kind, next_state |-> next_state]

Responses ==
    {Response(k, Missing) :
        k \in {"exception", "not_text", "not_json", "json_array"}}
    \cup {Response("json_object", v) :
            v \in StateStrings \cup {Missing, JsonNull, JsonNumber}}

\* str.lower on the strings above
Lower(text) ==
    CASE text = "ENGAGING_LIKE" -> "engaging_like"
      [] text = "Composing" -> "composing"
      [] OTHER -> text

\* the first option whose value is state_value, else options[0]
FirstMatch(options, state_value) ==
    IF \E k \in 1..Len(options) : options[k] = state_value
    THEN options[CHOOSE k \in 1..Len(options) :
                    /\ options[k] = state_value
                    /\ \A j \in 1..(k - 1) : options[j] # state_value]
    ELSE options[1]

\* StatechartReasoner._parse_response without the membership test
_parse_response_trusting(response, options) ==
    CASE response.kind = "not_text" ->
            [error |-> "TypeError", value |-> None]
      [] response.kind \in {"not_json", "json_array"} ->
            [error |-> None, value |-> options[1]]
      [] response.next_state \in {JsonNull, JsonNumber} ->
            [error |-> None, value |-> options[1]]
      [] response.next_state = Missing ->
            [error |-> None, value |-> options[1]]
      [] OTHER ->
            [error |-> None,
             value |-> IF Lower(response.next_state) \in AgentState
                       THEN Lower(response.next_state)
                       ELSE options[1]]

\* StatechartReasoner._parse_response: json.loads raises TypeError on a
\* value that is not text (not caught here) and JSONDecodeError on text
\* that is not JSON; data.get raises AttributeError on a JSON array, and
\* .lower() on null or a number; a missing key reads as "".
_parse_response(response, options) ==
    CASE response.kind = "not_text" ->
            [error |-> "TypeError", value |-> None]
      [] response.kind \in {"not_json", "json_array"} ->
            [error |-> None, value |-> options[1]]
      [] response.next_state \in {JsonNull, JsonNumber} ->
            [error |-> None, value |-> options[1]]
      [] OTHER ->
            LET state_value == IF response.next_state = Missing THEN ""
                               ELSE Lower(response.next_state)
            IN  [error |-> None,
                 value |-> FirstMatch(options, state_value)]

NoReasonerCall ==
    [op |-> None, pc |-> "idle", options |-> <<>>, response |-> None,
     result |-> None, raised |-> None]

OptionStates == {"composing", "engaging_like", "scrolling"}

OptionLists ==
    UNION {[1..n -> OptionStates] : n \in 0..MaxOptions}

InitReasoner ==
    /\ states = AgentState
    /\ transitions = create_social_media_statechart
    /\ initial = "idle"
    /\ constructed = StatechartInit(states, transitions, initial)
    /\ call = NoReasonerCall
    /\ config = [max_rounds |-> 1, checkpoint_frequency |-> 1,
                 checkpoint_dir |-> FALSE]
    /\ wiring = [entry |-> "run_simulation", agent_factory |-> FALSE,
                 decision_executor |-> "AgentDecisionExecutor",
                 logging |-> FALSE, reasoner |-> TRUE,
                 double_action |-> NoAction,
                 log_file |-> FALSE, double_result |-> "DecisionResult"]
    /\ agents = <<SocialAgent(1, "evaluating", 0)>>
    /\ posts = <<>>
    /\ index = {}
    /\ metrics = EngagementMetrics(0, 0, 0, 0)
    /\ round_number = 0
    /\ ctl = [pc |-> "reasoner", remaining |-> 0, i |-> 0,
              checkpointer |-> FALSE, start_round |-> 0]
    /\ turn = [i \in 1..NumAgents |-> NoTurn]
    /\ decisions = <<>>
    /\ rounds = <<>>
    /\ disk = <<>>
    /\ tmpfiles = <<>>
    /\ file_handle = "none"
    /\ log = <<>>
    /\ outcome = Pending

\* decide(agent, current_state, trigger, options, context) up to its
\* await: empty options raise ValueError, otherwise the prompt is built
\* and the LLM is called
DecideCall(options) ==
    /\ ctl.pc = "reasoner"
    /\ call.pc \in {"idle", "done"}
    /\ call' = IF options = <<>>
               THEN [NoReasonerCall EXCEPT !.op = "decide", !.pc = "done",
                                           !.raised = "ValueError"]
               ELSE [NoReasonerCall EXCEPT !.op = "decide",
                                           !.pc = "awaiting",
                                           !.options = options]
    /\ UNCHANGED <<states, transitions, initial, constructed, simVars>>

\* the try block of decide once self._client.run has ended: `except
\* Exception` turns an exception of the call or of _parse_response into
\* options[0]
ClientRunEnds(response) ==
    /\ ctl.pc = "reasoner"
    /\ call.pc = "awaiting"
    /\ LET parsed == _parse_response(response, call.options)
           result == IF response.kind = "exception" THEN call.options[1]
                     ELSE IF parsed.error # None THEN call.options[1]
                     ELSE parsed.value
       IN  call' = [call EXCEPT !.pc = "done", !.response = response,
                                !.result = result]
    /\ UNCHANGED <<states, transitions, initial, constructed, simVars>>

NextReasoner ==
    \/ \E options \in OptionLists : DecideCall(options)
    \/ \E response \in Responses : ClientRunEnds(response)

SpecReasoner == InitReasoner /\ [][NextReasoner]_vars

\* the response is a JSON object whose next_state is a string that, in
\* lower case, is the value of one of the options
NamesCandidate(response, options) ==
    /\ response.kind = "json_object"
    /\ response.next_state \in StateStrings
    /\ \E k \in 1..Len(options) : options[k] = Lower(response.next_state)

\* C26: with a non-empty candidate list decide never raises and returns an
\* element of the list: the candidate the parsed next_state names when
\* the response names one, and the first candidate on an LLM exception, a
\* response that is not JSON, a missing next_state, an unknown state or
\* a state that is not a candidate; an empty candidate list fails with
\* EmptyOptions (ValueError).
C26_ReasonerReturnsCandidate ==
    (call.op = "decide" /\ call.pc = "done") =>
        IF call.options = <<>>
        THEN call.raised = "ValueError" /\ call.result = None
        ELSE /\ call.raised = None
             /\ \E k \in 1..Len(call.options) :
                    call.result = call.options[k]
             /\ call.result =
                    IF NamesCandidate(call.response, call.options)
                    THEN Lower(call.response.next_state)
                    ELSE call.options[1]

\* C26 witness: decide was given two candidates and a response that names
\* the second one, in upper case, and returned the second.
C26_Witness ==
    /\ call.op = "decide"
    /\ call.pc = "done"
    /\ call.options = <<"composing", "engaging_like">>
    /\ call.response = Response("json_object", "ENGAGING_LIKE")
    /\ call.result = "engaging_like"

\* ------------------------------------------------------------------------
\* Properties of the decision log
\* ------------------------------------------------------------------------
\* C27: the file handle the logging executor acquired on construction is
\* released on every exit path of a run, also when the run ends with an
\* exception: no run has ended with the handle still held.
C27_HandleReleasedOnEveryExit ==
    (outcome.status = "raised") => file_handle # "open"

\* agent i's turn of the current round got as far as the decision
\* executor's transition, or further, and has ended
TurnExecuted(i) ==
    \/ turn[i].phase \in {"return", "done"}
    \/ /\ turn[i].phase = "failed"
       /\ turn[i].from_state # None \/ turn[i].decision # NoDecision

\* the number of such turns since the run began
ExecutedTurns ==
    Len(rounds) * Len(agents)
    + Cardinality({i \in 1..Len(agents) : TurnExecuted(i)})

\* C28: with a logging executor in the pipeline every executed agent turn
\* appends exactly one entry to the decision log, the entries are in the
\* order in which the turns were executed, and each entry's round is the
\* round_number during which its turn ran (R rounds over N agents give
\* R * N entries).
C28_OneEntryPerDecision ==
    wiring.logging =>
        /\ Len(log) = ExecutedTurns
        /\ \A k \in 1..Len(log) :
              /\ log[k].agent_id = ((k - 1) % Len(agents)) + 1
              /\ log[k].round = ctl.start_round + ((k - 1) \div Len(agents))
        /\ outcome.status = "returned" =>
              Len(log) = Len(rounds) * Len(agents)

\* ------------------------------------------------------------------------
\* The embedding function as a library
\* ------------------------------------------------------------------------
\* how one execution of _embed_single's body can end: the embedding is
\* returned, httpx.post raises a timeout or network error, or
\* raise_for_status / response.json()["embedding"] raise
AttemptOutcomes ==
    {"ok", "TimeoutException", "NetworkError", "HTTPStatusError",
     "KeyError"}

\* retry_if_exception_type((httpx.TimeoutException, httpx.NetworkError))
retry_if_exception_type(exception) ==
    exception \in {"TimeoutException", "NetworkError"}

\* stop_after_attempt(3)
stop_after_attempt_late(attempt_number) == attempt_number > MaxAttempts

stop_after_attempt(attempt_number) == attempt_number >= MaxAttempts

\* wait_exponential(multiplier=1, min=1, max=10), in seconds
RECURSIVE Pow2(_)
Pow2(n) == IF n = 0 THEN 1 ELSE 2 * Pow2(n - 1)

wait_exponential(attempt_number) ==
    LET result == Pow2(attempt_number - 1)
        capped == IF result < 10 THEN result ELSE 10
    IN  IF capped > 1 THEN capped ELSE 1

NoEmbeddingCall ==
    [op |-> None, pc |-> "idle", input |-> 0, doc |-> 0,
     attempt_number |-> 0, attempts |-> <<>>, slept |-> 0, result |-> 0,
     raised |-> None]

InitEmbedding ==
    /\ states = AgentState
    /\ transitions = create_social_media_statechart
    /\ initial = "idle"
    /\ constructed = StatechartInit(states, transitions, initial)
    /\ call = NoEmbeddingCall
    /\ config = [max_rounds |-> 1, checkpoint_frequency |-> 1,
                 checkpoint_dir |-> FALSE]
    /\ wiring = [entry |-> "run_simulation", agent_factory |-> FALSE,
                 decision_executor |-> "AgentDecisionExecutor",
                 logging |-> FALSE, reasoner |-> FALSE,
                 double_action |-> NoAction,
                 log_file |-> FALSE, double_result |-> "DecisionResult"]
    /\ agents = <<>>
    /\ posts = <<>>
    /\ index = {}
    /\ metrics = EngagementMetrics(0, 0, 0, 0)
    /\ round_number = 0
    /\ ctl = [pc |-> "embedding", remaining |-> 0, i |-> 0,
              checkpointer |-> FALSE, start_round |-> 0]
    /\ turn = [i \in 1..NumAgents |-> NoTurn]
    /\ decisions = <<>>
    /\ rounds = <<>>
    /\ disk = <<>>
    /\ tmpfiles = <<>>
    /\ file_handle = "none"
    /\ log = <<>>
    /\ outcome = Pending

\* OllamaEmbeddingFunction.__call__(input): _embed_single is called for the
\* first document, or [] is returned for no document
EmbedCall(n) ==
    /\ ctl.pc = "embedding"
    /\ call.pc = "idle"
    /\ call' = IF n = 0
               THEN [NoEmbeddingCall EXCEPT !.op = "__call__",
                                            !.pc = "returned"]
               ELSE [NoEmbeddingCall EXCEPT !.op = "__call__",
                                            !.pc = "attempt", !.input = n,
                                            !.doc = 1,
                                            !.attempt_number = 1]
    /\ UNCHANGED <<states, transitions, initial, constructed, simVars>>

\* one execution of _embed_single's body ends and the retry decorator
\* decides: return the result, raise what is not retried, stop and
\* re-raise after the last attempt, or sleep and try again
Attempt(o) ==
    /\ ctl.pc = "embedding"
    /\ call.pc = "attempt"
    /\ LET made == Append(call.attempts,
                          [doc |-> call.doc, outcome |-> o])
       IN  call' =
             IF o = "ok"
             THEN IF call.doc = call.input
                  THEN [call EXCEPT !.attempts = made, !.result = @ + 1,
                                    !.pc = "returned"]
                  ELSE [call EXCEPT !.attempts = made, !.result = @ + 1,
                                    !.doc = @ + 1, !.attempt_number = 1]
             ELSE IF ~retry_if_exception_type(o)
             THEN [call EXCEPT !.attempts = made, !.pc = "raised",
                               !.raised = o]
             ELSE IF stop_after_attempt(call.attempt_number)
             THEN [call EXCEPT !.attempts = made, !.pc = "raised",
                               !.raised = o]
             ELSE [call EXCEPT !.attempts = made, !.pc = "wait"]
    /\ UNCHANGED <<states, transitions, initial, constructed, simVars>>

\* the sleep between two attempts is over
Wait ==
    /\ ctl.pc = "embedding"
    /\ call.pc = "wait"
    /\ call' = [call EXCEPT
                    !.pc = "attempt",
                    !.slept = @ + wait_exponential(call.attempt_number),
                    !.attempt_number = @ + 1]
    /\ UNCHANGED <<states, transitions, initial, constructed, simVars>>

NextEmbedding ==
    \/ \E n \in 0..MaxDocs : EmbedCall(n)
    \/ \E o \in AttemptOutcomes : Attempt(o)
    \/ Wait

SpecEmbedding == InitEmbedding /\ [][NextEmbedding]_vars

\* the outcomes of the attempts made for document d, in order
AttemptsOf(d) ==
    LET made == SelectSeq(call.attempts, LAMBDA x : x.doc = d)
    IN  [k \in 1..Len(made) |-> made[k].outcome]

\* _embed_single has ended for document d
EmbedEnded(d) ==
    \/ d < call.doc
    \/ d = call.doc /\ call.pc \in {"returned", "raised"}

\* C29: embedding one text is attempted at most 3 times: an attempt is
\* made again only after a timeout or network error of the attempt
\* before, a success on any attempt ends the call with its result and no
\* further attempt, a timeout or network error on an earlier attempt is
\* followed by another attempt, and on the third attempt it is raised to
\* the caller.
C29_AtMostThreeAttempts ==
    (call.op = "__call__") =>
        \A d \in 1..call.input :
            LET a == AttemptsOf(d)
            IN  /\ Len(a) <= 3
                /\ \A k \in 1..(Len(a) - 1) :
                      a[k] \in {"TimeoutException", "NetworkError"}
                /\ EmbedEnded(d) =>
                      /\ Len(a) >= 1
                      /\ a[Len(a)] \in {"TimeoutException",
                                        "NetworkError"} =>
                            /\ Len(a) = 3
                            /\ call.pc = "raised"
                            /\ call.raised = a[3]
                      /\ (a[Len(a)] = "ok" /\ call.pc = "raised") =>
                            d < call.doc
                /\ call.pc = "returned" => call.result = call.input

\* C29 witness: the second text's third attempt timed out after two
\* network errors, and the timeout reached the caller.
C29_Witness ==
    /\ call.op = "__call__"
    /\ call.pc = "raised"
    /\ call.doc = 2
    /\ AttemptsOf(2) = <<"NetworkError", "NetworkError", "TimeoutException">>
    /\ call.raised = "TimeoutException"
    /\ call.slept >= 3

\* C30: every agent's engagement_threshold lies in [0, 1] at all times,
\* on construction and after a reconstruction from a checkpoint, and
\* should_engage(r) is monotone in r: it is true exactly for
\* r >= engagement_threshold.
C30_EngagementThresholdInRange ==
    /\ \A i \in 1..Len(agents) :
          /\ agents[i].engagement_threshold >= 0
          /\ agents[i].engagement_threshold <= 10
    /\ (call.op = "should_engage") =>
          /\ call.result = (call.relevance >= agents[1].engagement_threshold)
          /\ \A r \in Relevances :
                (call.result /\ r >= call.relevance) =>
                    should_engage(agents[1], r)

\* ------------------------------------------------------------------------
\* Properties of a run that fails
\* ------------------------------------------------------------------------
\* agent i's turn ends with an exception in this step
TurnFails(i) == turn[i].phase # "failed" /\ turn'[i].phase = "failed"

\* C31: an exception raised inside an agent's turn aborts the run: it
\* leaves the entry point as the run's error, no later agent takes a turn,
\* round_number is not advanced, no checkpoint is written for the
\* unfinished round, and the checkpoints written before stay on disk as
\* they are.
C31_FailureAbortsRun ==
    [][/\ \A i \in 1..NumAgents :
             TurnFails(i) =>
                /\ ctl'.pc = "raised"
                /\ outcome'.status = "raised"
                /\ outcome'.error = turn'[i].error
                /\ \A j \in (i + 1)..NumAgents :
                      turn'[j].phase = "waiting"
                /\ round_number' = round_number
                /\ rounds' = rounds
                /\ disk' = disk
                /\ \A r \in DOMAIN disk : r <= round_number
       /\ (ctl.pc = "raised") =>
             /\ ctl'.pc = "raised"
             /\ UNCHANGED <<turn, agents, posts, metrics, round_number,
                            rounds, decisions, disk, tmpfiles, outcome>>]_vars

\* C31 witness: a run started at round 0 completed a round and wrote its
\* checkpoint, and then the second agent's turn of the next round failed:
\* the run has raised, round_number is still 1 and the file is there.
C31_Witness ==
    /\ wiring.entry = "run_simulation"
    /\ ctl.pc = "raised"
    /\ ctl.start_round = 0
    /\ turn[2].phase = "failed"
    /\ outcome.error = "TimeoutException"
    /\ round_number = 1
    /\ Len(rounds) = 1
    /\ DOMAIN disk = {1}
    /\ config.max_rounds >= 2

\* ------------------------------------------------------------------------
\* Properties of the decision executor's resolution
\* ------------------------------------------------------------------------
\* what fire returns for the turn that the step has decided
FiredFor(i) ==
    Fire(transitions, turn'[i].trigger, turn'[i].from_state).result

TargetsFor(i) ==
    ValidTargets(transitions, turn'[i].from_state, turn'[i].trigger)

\* C32: only a fire result that is a target different from from_state is
\* applied directly, with reasoner_used false; in every other case, also
\* when fire returns from_state itself, the executor resolves the turn by
\* valid_targets(from_state, trigger): it consults the reasoner when one
\* is present and there are two or more targets, takes the single target,
\* takes the first of several without a reasoner, and stays with none.
C32_OnlyChangingFireAppliedDirectly ==
    [][\A i \in 1..NumAgents :
          DecisionStep(i) =>
              LET fired == FiredFor(i)
                  targets == TargetsFor(i)
              IN  IF fired # None /\ fired # turn'[i].from_state
                  THEN /\ turn'[i].phase # "reasoner"
                       /\ turn'[i].reasoner_used = FALSE
                       /\ agents'[i].state = fired
                  ELSE IF Len(targets) >= 2 /\ wiring.reasoner
                  THEN turn'[i].phase = "reasoner"
                  ELSE /\ turn'[i].phase # "reasoner"
                       /\ turn'[i].reasoner_used = FALSE
                       /\ agents'[i].state =
                             IF targets = <<>> THEN turn'[i].from_state
                             ELSE targets[1]]_vars

\* the turn is resolved through valid_targets without the reasoner
ResolvedByTargets(i) ==
    /\ DecisionStep(i)
    /\ FiredFor(i) = None
    /\ ~(Len(TargetsFor(i)) >= 2 /\ wiring.reasoner)

\* C33: when the turn is resolved through valid_targets, no target means
\* the agent stays (to_state = from_state, no history entry, ticks not
\* reset), one target means the agent moves to it, two or more targets
\* without a reasoner mean the agent moves to the first one in declaration
\* order, and reasoner_used is false in all three cases.
C33_ResolutionByTargetCount ==
    [][\A i \in 1..NumAgents :
          ResolvedByTargets(i) =>
              LET targets == TargetsFor(i)
                  ticked == tick(agents[i])
              IN  /\ turn'[i].error = None
                  /\ turn'[i].reasoner_used = FALSE
                  /\ HasReasonerUsed(turn'[i].decision)
                  /\ IF targets = <<>>
                     THEN /\ turn'[i].decision.to_state = turn'[i].from_state
                          /\ agents'[i].state = agents[i].state
                          /\ agents'[i].state_history =
                                agents[i].state_history
                          /\ agents'[i].ticks_in_state =
                                ticked.ticks_in_state
                     ELSE /\ turn'[i].decision.to_state = targets[1]
                          /\ agents'[i].state = targets[1]]_vars

\* ------------------------------------------------------------------------
\* Properties of the post list
\* ------------------------------------------------------------------------
IdsOf(ps) == [k \in 1..Len(ps) |-> ps[k].id]

\* C34: the round executor never supplies a new post to the state update
\* executor, so for every action type a turn leaves the list of posts as
\* long as it was, with the same ids, leaves metrics.posts_created at its
\* value and upserts nothing into the retriever's collection; a run started
\* by run_simulation therefore has posts_created = 0 in every state, the
\* last one included.
C34_NoPostEverCreated ==
    /\ [](wiring.entry = "run_simulation" => metrics.posts_created = 0)
    /\ [][\A i \in 1..NumAgents :
             StateUpdateStep(i) =>
                /\ IdsOf(posts') = IdsOf(posts)
                /\ metrics'.posts_created = metrics.posts_created
                /\ index' = index]_vars

C34_Witness ==
    /\ wiring.entry = "run_simulation"
    /\ ctl.pc = "returned"
    /\ config.max_rounds = 2
    /\ Len(rounds) = 2
    /\ \A k \in 1..Len(rounds) :
          /\ Len(rounds[k].decisions) = NumAgents
          /\ \A d \in 1..NumAgents :
                rounds[k].decisions[d].action.action = "compose"
    /\ metrics.posts_created = 0
    /\ Len(posts) = 1

\* ------------------------------------------------------------------------
\* Conservation of the engagement counters
\* ------------------------------------------------------------------------
\* sum of one counter over the posts
PostTotal(ps, field) ==
    SumValues([k \in 1..Len(ps) |-> ps[k][field]])

\* the metric that accumulates a counter of the posts
MetricOf ==
    [likes |-> "total_likes", replies |-> "total_replies",
     reshares |-> "total_reshares"]

\* a turn's state update adds 1 to the metric of `field` exactly when it
\* adds 1 to that counter of exactly one existing post
Paired(field) ==
    LET grown == {k \in 1..Len(posts) :
                    posts'[k][field] = posts[k][field] + 1}
        same == {k \in 1..Len(posts) : posts'[k][field] = posts[k][field]}
        d == metrics'[MetricOf[field]] - metrics[MetricOf[field]]
    IN  /\ Len(posts') = Len(posts)
        /\ grown \cup same = 1..Len(posts)
        /\ d \in {0, 1}
        /\ Cardinality(grown) = d

\* the first two agents of the first round both liked post p1
TwoLikesOfSamePost ==
    /\ wiring.entry = "run_simulation"
    /\ rounds = <<>>
    /\ Len(decisions) = 2
    /\ \A d \in 1..2 : decisions[d].action = ActionResult("like", "p1")
    /\ \A j \in 3..NumAgents :
          turn[j].phase \in {"waiting", "feed", "decision", "state"}

Declared(trigger, source, target) ==
    \E k \in 1..Len(transitions) :
        /\ transitions[k].trigger = trigger
        /\ transitions[k].source = source
        /\ transitions[k].target = target

\* the step in which the decision executor, possibly after the reasoner's
\* answer, settles the state of agent i
ExecutorStep(i) ==
    /\ wiring.decision_executor = "AgentDecisionExecutor"
    /\ turn[i].phase \in {"decision", "reasoner"}
    /\ turn'[i].phase # turn[i].phase

\* C36: whenever the decision executor changes an agent's state, by fire,
\* by the single valid target, by the first-target fallback or by the
\* reasoner's answer, (from_state, trigger, to_state) is a transition the
\* chart declares.
C36_OnlyDeclaredTransitions ==
    [][\A i \in 1..NumAgents :
          (ExecutorStep(i) /\ agents'[i].state # agents[i].state) =>
              /\ turn'[i].from_state = agents[i].state
              /\ Declared(turn'[i].trigger, agents[i].state,
                          agents'[i].state)]_vars

C36_Witness ==
    \E i \in 1..NumAgents :
        /\ turn[i].reasoner_used
        /\ turn[i].from_state = "evaluating"
        /\ agents[i].state = "engaging_like"
        /\ Declared(turn[i].trigger, "evaluating", "engaging_like")

\* ------------------------------------------------------------------------
\* Properties of runs on the standard chart
\* ------------------------------------------------------------------------
Engaging == {"engaging_like", "engaging_reply", "engaging_reshare"}

C38_TicksNeverAccumulate ==
    [][\A i \in 1..NumAgents :
          (/\ ExecutorStep(i)
           /\ transitions = create_social_media_statechart
           /\ agents[i].ticks_in_state = 0
           /\ agents[i].timeout_threshold >= 1) =>
              /\ tick(agents[i]).ticks_in_state <= 1
              /\ turn'[i].trigger # "timeout"
              /\ agents'[i].state # agents[i].state
              /\ agents'[i].ticks_in_state = 0]_vars

C38_Witness ==
    \E i \in 1..NumAgents :
        /\ transitions = create_social_media_statechart
        /\ wiring.decision_executor = "AgentDecisionExecutor"
        /\ turn[i].from_state = "idle"
        /\ turn[i].trigger = "start_browsing"
        /\ agents[i].state = "scrolling"
        /\ agents[i].ticks_in_state = 0
        /\ agents[i].timeout_threshold >= 1

\* C39: on the standard chart an agent that begins a turn in idle with
\* ticks_in_state >= timeout_threshold gets the trigger `timeout`; the chart
\* has no timeout transition out of idle, so the agent stays in idle, its
\* ticks are not reset but grow by one, nothing is added to its history,
\* and it begins every later turn in the same condition: start_browsing is
\* never fired for it again.
C39_IdleTimedOutIsStuck ==
    [][\A i \in 1..NumAgents :
          (/\ ExecutorStep(i)
           /\ transitions = create_social_media_statechart
           /\ agents[i].state = "idle"
           /\ agents[i].ticks_in_state >= agents[i].timeout_threshold) =>
              /\ turn'[i].trigger = "timeout"
              /\ ValidTargets(transitions, "idle", "timeout") = <<>>
              /\ agents'[i].state = "idle"
              /\ agents'[i].ticks_in_state = agents[i].ticks_in_state + 1
              /\ agents'[i].ticks_in_state >= agents'[i].timeout_threshold
              /\ agents'[i].state_history = agents[i].state_history]_vars

C39_Witness ==
    \E i \in 1..NumAgents :
        /\ transitions = create_social_media_statechart
        /\ wiring.decision_executor = "AgentDecisionExecutor"
        /\ turn[i].from_state = "idle"
        /\ turn[i].trigger = "timeout"
        /\ agents[i].state = "idle"
        /\ agents[i].ticks_in_state = agents[i].timeout_threshold + 1

\* ------------------------------------------------------------------------
\* Properties of resuming
\* ------------------------------------------------------------------------
\* max(0, max_rounds - R) for the round R of the checkpoint
RoundsToRun(R) ==
    IF config.max_rounds > R THEN config.max_rounds - R ELSE 0

\* resume_from_checkpoint has loaded the checkpoint
CheckpointLoaded ==
    /\ wiring.entry = "resume_from_checkpoint"
    /\ ctl.pc \in {"run_round", "returned"}

====
